---- MODULE Spec2Model ----
(***************************************************************************)
(* A model of the deterministic Tetris engine (lib/tetris/engine.ts) and   *)
(* of the rollback coordinator built on it (lib/multiplayer/netcode.ts).   *)
(*                                                                         *)
(* Durations are held in thirds of a millisecond, so that the coordinator's *)
(* frame time 1000/60 ms is the integer 50 and every preset threshold is an  *)
(* integer as well.  The 32-bit RNG word is held as two 16-bit halves so     *)
(* that the LCG recurrence is computed exactly, modulo 2^32.                 *)
(***************************************************************************)
EXTENDS Integers, Sequences, FiniteSets, TLC

(***************************************************************************)
(* Static data                                                             *)
(***************************************************************************)

\* thirds of a millisecond per millisecond (1000/60 ms = 50 units)
TimeScale == 3

\* playfield geometry: new Uint32Array(40), ten columns, full row 0x3FF
Rows == 40
Cols == 10
FullRow == 1023

\* 2^16, the radix of the two halves of the RNG word
Half == 65536

Pow2(n) == IF n = 0 THEN 1 ELSE IF n = 1 THEN 2 ELSE IF n = 2 THEN 4
           ELSE IF n = 3 THEN 8 ELSE IF n = 4 THEN 16 ELSE IF n = 5 THEN 32
           ELSE IF n = 6 THEN 64 ELSE IF n = 7 THEN 128 ELSE IF n = 8 THEN 256
           ELSE 512

\* row & (1 << x), as a truth value
Bit(row, x) == (row \div Pow2(x)) % 2 = 1

\* row | (1 << x)
SetBit(row, x) == IF Bit(row, x) THEN row ELSE row + Pow2(x)

\* PIECES[type][rotation][y][x], 1-based here
PIECES ==
  << \* I
     << << <<0,0,0,0>>, <<1,1,1,1>>, <<0,0,0,0>>, <<0,0,0,0>> >>,
        << <<0,0,1,0>>, <<0,0,1,0>>, <<0,0,1,0>>, <<0,0,1,0>> >>,
        << <<0,0,0,0>>, <<0,0,0,0>>, <<1,1,1,1>>, <<0,0,0,0>> >>,
        << <<0,1,0,0>>, <<0,1,0,0>>, <<0,1,0,0>>, <<0,1,0,0>> >> >>,
     \* O
     << << <<0,1,1,0>>, <<0,1,1,0>>, <<0,0,0,0>>, <<0,0,0,0>> >>,
        << <<0,1,1,0>>, <<0,1,1,0>>, <<0,0,0,0>>, <<0,0,0,0>> >>,
        << <<0,1,1,0>>, <<0,1,1,0>>, <<0,0,0,0>>, <<0,0,0,0>> >>,
        << <<0,1,1,0>>, <<0,1,1,0>>, <<0,0,0,0>>, <<0,0,0,0>> >> >>,
     \* T
     << << <<0,1,0,0>>, <<1,1,1,0>>, <<0,0,0,0>>, <<0,0,0,0>> >>,
        << <<0,1,0,0>>, <<0,1,1,0>>, <<0,1,0,0>>, <<0,0,0,0>> >>,
        << <<0,0,0,0>>, <<1,1,1,0>>, <<0,1,0,0>>, <<0,0,0,0>> >>,
        << <<0,1,0,0>>, <<1,1,0,0>>, <<0,1,0,0>>, <<0,0,0,0>> >> >>,
     \* S
     << << <<0,1,1,0>>, <<1,1,0,0>>, <<0,0,0,0>>, <<0,0,0,0>> >>,
        << <<0,1,0,0>>, <<0,1,1,0>>, <<0,0,1,0>>, <<0,0,0,0>> >>,
        << <<0,0,0,0>>, <<0,1,1,0>>, <<1,1,0,0>>, <<0,0,0,0>> >>,
        << <<1,0,0,0>>, <<1,1,0,0>>, <<0,1,0,0>>, <<0,0,0,0>> >> >>,
     \* Z
     << << <<1,1,0,0>>, <<0,1,1,0>>, <<0,0,0,0>>, <<0,0,0,0>> >>,
        << <<0,0,1,0>>, <<0,1,1,0>>, <<0,1,0,0>>, <<0,0,0,0>> >>,
        << <<0,0,0,0>>, <<1,1,0,0>>, <<0,1,1,0>>, <<0,0,0,0>> >>,
        << <<0,1,0,0>>, <<1,1,0,0>>, <<1,0,0,0>>, <<0,0,0,0>> >> >>,
     \* J
     << << <<1,0,0,0>>, <<1,1,1,0>>, <<0,0,0,0>>, <<0,0,0,0>> >>,
        << <<0,1,1,0>>, <<0,1,0,0>>, <<0,1,0,0>>, <<0,0,0,0>> >>,
        << <<0,0,0,0>>, <<1,1,1,0>>, <<0,0,1,0>>, <<0,0,0,0>> >>,
        << <<0,1,0,0>>, <<0,1,0,0>>, <<1,1,0,0>>, <<0,0,0,0>> >> >>,
     \* L
     << << <<0,0,1,0>>, <<1,1,1,0>>, <<0,0,0,0>>, <<0,0,0,0>> >>,
        << <<0,1,0,0>>, <<0,1,0,0>>, <<0,1,1,0>>, <<0,0,0,0>> >>,
        << <<0,0,0,0>>, <<1,1,1,0>>, <<1,0,0,0>>, <<0,0,0,0>> >>,
        << <<1,1,0,0>>, <<0,1,0,0>>, <<0,1,0,0>>, <<0,0,0,0>> >> >> >>

\* the occupied template cells <<x, y>> of PIECES[type][rotation]
ShapeCells ==
  [t \in 0..6 |-> [r \in 0..3 |->
     {c \in (0..3) \X (0..3) : PIECES[t + 1][r + 1][c[2] + 1][c[1] + 1] = 1}]]

\* SRS_KICKS[class][rotation] = list of <<dx, dy>>, 1-based here
SRS_KICKS ==
  << << << <<0,0>>, <<-1,0>>, <<2,0>>,  <<-1,0>>,  <<2,0>>   >>,
        << <<0,0>>, <<2,0>>,  <<-1,0>>, <<2,1>>,   <<-1,-2>> >>,
        << <<0,0>>, <<1,0>>,  <<-2,0>>, <<1,0>>,   <<-2,0>>  >>,
        << <<0,0>>, <<-2,0>>, <<1,0>>,  <<-2,-1>>, <<1,2>>   >> >>,
     << << <<0,0>>, <<-1,0>>, <<-1,1>>,  <<0,-2>>, <<-1,-2>> >>,
        << <<0,0>>, <<1,0>>,  <<1,-1>>,  <<0,2>>,  <<1,2>>   >>,
        << <<0,0>>, <<1,0>>,  <<1,1>>,   <<0,-2>>, <<1,-2>>  >>,
        << <<0,0>>, <<-1,0>>, <<-1,-1>>, <<0,2>>,  <<-1,2>>  >> >> >>

\* PRESETS, durations scaled by TimeScale
PRESETS ==
  [ guideline |->
      [ name |-> "Guideline",
        gravity |-> << 3000, 2379, 1854, 1419, 1065, 786, 570, 405, 282, 192,
                       129, 84, 54, 33, 21, 12, 6, 3 >>,
        lockDelay |-> 1500, das |-> 501, arr |-> 99,
        scoreTable |-> << 100, 300, 500, 800, 1200, 1600 >> ],
    nes |->
      [ name |-> "NES 1989",
        gravity |-> << 144, 129, 114, 99, 84, 69, 54, 39, 24, 18, 15, 15, 15,
                       12, 12, 12, 9, 9, 9, 6, 6, 6, 6, 6, 6, 6, 6, 6, 6, 3 >>,
        lockDelay |-> 0, das |-> 801, arr |-> 300,
        scoreTable |-> << 40, 100, 300, 1200 >> ] ]

Min(a, b) == IF a < b THEN a ELSE b
Max(a, b) == IF a > b THEN a ELSE b

(***************************************************************************)
(* SeededRNG: the state word is <<hi, lo>>, value hi * 2^16 + lo           *)
(***************************************************************************)

\* new SeededRNG(seed): the seed is the state word (seeds here are < 2^16)
RngOfSeed(seed) == << seed \div Half, seed % Half >>

\* next(): state = (state * 1664525 + 1013904223) % 2^32
\* 1664525 = 25 * 2^16 + 26125, 1013904223 = 15470 * 2^16 + 62303
RngNext(s) ==
  LET low == s[2] * 26125 + 62303
  IN  << (s[1] * 26125 + s[2] * 25 + 15470 + (low \div Half)) % Half,
         low % Half >>

\* nextInt(max) on the word s that next() returned:
\* floor(s / 2^32 * max), exact in double precision for max <= 7
RngInt(s, max) == (s[1] * max + ((s[2] * max) \div Half)) \div Half

(***************************************************************************)
(* TetrisEngine.  An engine is a record holding the fields of GameState    *)
(* (the preset by name) and the private bag.  dirtyRows, which only the    *)
(* renderer reads, is left out.  null is NoPiece / NoHold.                 *)
(***************************************************************************)

NoPiece == [type |-> -1, x |-> 0, y |-> 0, rotation |-> 0]
NoHold == -1

\* spawn position of spawnPiece and of the hold swap
SpawnX == 3
SpawnY == 20

\* lookahead length kept by spawnPiece
QueueLen == 5

\* cap of the level in updateScore
MaxLevel == 15

NeutralInput == [left |-> FALSE, right |-> FALSE, softDrop |-> FALSE,
                 hardDrop |-> FALSE, rotate |-> FALSE, hold |-> FALSE]

PresetOf(e) == PRESETS[e.preset]

createInitialState(presetName, seed) ==
  [ playfield |-> [y \in 0..(Rows - 1) |-> 0],
    currentPiece |-> NoPiece,
    nextQueue |-> << >>,
    holdPiece |-> NoHold,
    canHold |-> TRUE,
    score |-> 0, lines |-> 0, level |-> 1, combo |-> 0, b2b |-> 0,
    garbageQueue |-> << >>,
    lockTimer |-> 0, dropTimer |-> 0, dasTimer |-> 0, arrTimer |-> 0,
    dasDirection |-> 0,
    gameOver |-> FALSE,
    time |-> 0,
    seed |-> seed,
    rng |-> RngOfSeed(seed),
    preset |-> presetName,
    bag |-> << >> ]

\* [bag[i], bag[j]] = [bag[j], bag[i]], on 0-based indices
\* a swap that loses bag[i]: bag[i] = bag[j] without the write back
SwapOverwrite(bag, i, j) ==
  [k \in 1..Len(bag) |-> IF k = i + 1 THEN bag[j + 1] ELSE bag[k]]

Swap(bag, i, j) ==
  [k \in 1..Len(bag) |-> IF k = i + 1 THEN bag[j + 1]
                         ELSE IF k = j + 1 THEN bag[i + 1] ELSE bag[k]]

\* the Fisher-Yates loop of fillBag from index i down to 1;
\* the result is <<bag, rng>>
RECURSIVE Shuffle(_, _, _)
Shuffle(bag, rng, i) ==
  IF i <= 0 THEN << bag, rng >>
  ELSE LET r == RngNext(rng)
           j == RngInt(r, i + 1)
       IN  Shuffle(Swap(bag, i, j), r, i - 1)

fillBag(e) ==
  IF Len(e.bag) = 0
  THEN LET sh == Shuffle(<< 0, 1, 2, 3, 4, 5, 6 >>, e.rng, 6)
       IN  [e EXCEPT !.bag = sh[1], !.rng = sh[2]]
  ELSE e

\* getNextPiece: fillBag, then bag.pop(); the drawn type is appended to
\* the queue by the callers, so the draw is returned as the queue's push
PushNextPiece(e) ==
  LET f == fillBag(e)
  IN  [f EXCEPT !.nextQueue = Append(@, f.bag[Len(f.bag)]),
                !.bag = SubSeq(f.bag, 1, Len(f.bag) - 1)]

RECURSIVE FillQueue(_)
FillQueue(e) ==
  IF Len(e.nextQueue) < QueueLen THEN FillQueue(PushNextPiece(e)) ELSE e

canPlace(e, piece) ==
  \A c \in ShapeCells[piece.type][piece.rotation] :
     LET boardX == piece.x + c[1]
         boardY == piece.y + c[2]
     IN  /\ ~(boardX < 0 \/ boardX >= Cols \/ boardY < 0)
         /\ ~(boardY < Rows /\ Bit(e.playfield[boardY], boardX))

\* the end of spawnPiece: the placement test of the new piece
SpawnAt(e, piece) ==
  IF ~canPlace(e, piece)
  THEN [e EXCEPT !.gameOver = TRUE]
  ELSE [e EXCEPT !.currentPiece = piece, !.canHold = TRUE, !.lockTimer = 0]

\* a spawn that takes the head of the queue and pushes no draw
SpawnWithoutPush(e) ==
  SpawnAt([e EXCEPT !.nextQueue = Tail(@)],
          [type |-> Head(e.nextQueue), x |-> SpawnX, y |-> SpawnY, rotation |-> 0])

\* spawnPiece once the queue holds 5 types: shift the queue, push a draw
SpawnNext(e) ==
  SpawnAt(PushNextPiece([e EXCEPT !.nextQueue = Tail(@)]),
          [type |-> Head(e.nextQueue), x |-> SpawnX, y |-> SpawnY, rotation |-> 0])

\* spawnPiece: the engine afterwards; it returned false iff gameOver was
\* set by this call
spawnPiece(e) == SpawnNext(FillQueue(e))

\* new TetrisEngine(preset, seed)
NewEngine(presetName, seed) ==
  spawnPiece(fillBag(createInitialState(presetName, seed)))

\* the first placeable candidate among kicks[k..], or NoPiece
RECURSIVE KickFrom(_, _, _, _, _)
KickFrom(e, piece, newRotation, kicks, k) ==
  IF k > Len(kicks) THEN NoPiece
  ELSE LET testPiece == [piece EXCEPT !.x = piece.x + kicks[k][1],
                                      !.y = piece.y - kicks[k][2],
                                      !.rotation = newRotation]
       IN  IF canPlace(e, testPiece) THEN testPiece
           ELSE KickFrom(e, piece, newRotation, kicks, k + 1)

\* tryKick that leaves out the first entry of the table
KickAfterOrigin(e, piece, newRotation) ==
  LET kickTable == IF piece.type = 0 THEN SRS_KICKS[1] ELSE SRS_KICKS[2]
  IN  KickFrom(e, piece, newRotation, kickTable[piece.rotation + 1], 2)

tryKick(e, piece, newRotation) ==
  LET kickTable == IF piece.type = 0 THEN SRS_KICKS[1] ELSE SRS_KICKS[2]
  IN  KickFrom(e, piece, newRotation, kickTable[piece.rotation + 1], 1)

\* placePiece: the playfield with the piece's cells set
placePiece(e, piece) ==
  [y \in 0..(Rows - 1) |->
     LET xs == {piece.x + c[1] : c \in {d \in ShapeCells[piece.type][piece.rotation] :
                                          piece.y + d[2] = y}}
         RECURSIVE SetAll(_, _)
         SetAll(row, x) == IF x >= Cols THEN row
                           ELSE SetAll(IF x \in xs THEN SetBit(row, x) ELSE row, x + 1)
     IN  SetAll(e.playfield[y], 0)]

\* the rows equal to 0x3FF
FullLines(pf) == {y \in 0..(Rows - 1) : pf[y] = FullRow}

\* one pass of the removal loop: rows above `line` shift down, top row zeroed
RemoveLine(pf, line) ==
  [y \in 0..(Rows - 1) |-> IF y < line THEN pf[y]
                           ELSE IF y < Rows - 1 THEN pf[y + 1] ELSE 0]

\* the removal loop without the reverse(): lowest line first, so that the
\* rows still to remove have moved when their turn comes
RECURSIVE RemoveLinesAscending(_, _)
RemoveLinesAscending(pf, lines) ==
  IF lines = {} THEN pf
  ELSE LET line == CHOOSE l \in lines : \A m \in lines : l <= m
       IN  RemoveLinesAscending(RemoveLine(pf, line), lines \ {line})

\* the removal loop over linesToClear.reverse(): highest line first
RECURSIVE RemoveLines(_, _)
RemoveLines(pf, lines) ==
  IF lines = {} THEN pf
  ELSE LET line == CHOOSE l \in lines : \A m \in lines : m <= l
       IN  RemoveLines(RemoveLine(pf, line), lines \ {line})

\* a clearLines that removes the highest full row and no other
ClearOneLine(pf) ==
  IF FullLines(pf) = {} THEN pf
  ELSE RemoveLine(pf, CHOOSE l \in FullLines(pf) : \A m \in FullLines(pf) : m <= l)

\* clearLines: the playfield afterwards (the count is Cardinality(FullLines))
clearLines(pf) == RemoveLines(pf, FullLines(pf))

checkTSpin(e, piece) ==
  IF piece.type # 2 THEN FALSE
  ELSE LET corners == { << piece.x, piece.y >>, << piece.x + 2, piece.y >>,
                        << piece.x, piece.y + 2 >>, << piece.x + 2, piece.y + 2 >> }
           filled == { c \in corners :
                         \/ c[1] < 0 \/ c[1] >= Cols \/ c[2] < 0
                         \/ (c[2] < Rows /\ Bit(e.playfield[c[2]], c[1])) }
       IN  Cardinality(filled) >= 3

\* table[i] ?? 0 on a 0-based index
At0(table, i) == IF i + 1 \in 1..Len(table) THEN table[i + 1] ELSE 0

\* no back-to-back bonus: the base score as it is
WithoutBonus(x) == x

\* Math.floor(x * 1.5) for a non-negative integer x
FloorThreeHalves(x) == (3 * x) \div 2

\* updateScore with a level that is not capped
ScoreUncapped(e, linesCleared, isTSpin) ==
  IF linesCleared = 0 THEN [e EXCEPT !.combo = 0]
  ELSE
    LET level == e.level
        tSpinScores == << 0, 800, 1200, 1600 >>
        qualifies == isTSpin \/ linesCleared = 4
        table == IF isTSpin THEN At0(tSpinScores, Min(linesCleared, 3)) * level
                 ELSE At0(PresetOf(e).scoreTable, linesCleared) * level
        base == IF qualifies /\ e.b2b > 0 THEN FloorThreeHalves(table) ELSE table
        b2b == IF qualifies THEN e.b2b + 1 ELSE 0
        lines == e.lines + linesCleared
    IN  [e EXCEPT !.b2b = b2b, !.combo = @ + 1,
                  !.score = @ + base + (IF e.combo > 0 THEN 50 * e.combo * level ELSE 0),
                  !.lines = lines,
                  !.level = (lines \div 10) + 1]

\* updateScore without the combo bonus
ScoreWithoutCombo(e, linesCleared, isTSpin) ==
  IF linesCleared = 0 THEN [e EXCEPT !.combo = 0]
  ELSE
    LET level == e.level
        tSpinScores == << 0, 800, 1200, 1600 >>
        qualifies == isTSpin \/ linesCleared = 4
        table == IF isTSpin THEN At0(tSpinScores, Min(linesCleared, 3)) * level
                 ELSE At0(PresetOf(e).scoreTable, linesCleared) * level
        base == IF qualifies /\ e.b2b > 0 THEN FloorThreeHalves(table) ELSE table
        b2b == IF qualifies THEN e.b2b + 1 ELSE 0
        lines == e.lines + linesCleared
    IN  [e EXCEPT !.b2b = b2b, !.combo = @ + 1, !.score = @ + base,
                  !.lines = lines,
                  !.level = Min((lines \div 10) + 1, MaxLevel)]

updateScore(e, linesCleared, isTSpin) ==
  IF linesCleared = 0 THEN [e EXCEPT !.combo = 0]
  ELSE
    LET level == e.level
        tSpinScores == << 0, 800, 1200, 1600 >>
        qualifies == isTSpin \/ linesCleared = 4
        table == IF isTSpin THEN At0(tSpinScores, Min(linesCleared, 3)) * level
                 ELSE At0(PresetOf(e).scoreTable, linesCleared) * level
        base == IF qualifies /\ e.b2b > 0 THEN FloorThreeHalves(table) ELSE table
        b2b == IF qualifies THEN e.b2b + 1 ELSE 0
        baseScore == IF e.combo > 0 THEN base + 50 * e.combo * level ELSE base
        lines == e.lines + linesCleared
    IN  [e EXCEPT !.b2b = b2b, !.combo = @ + 1, !.score = @ + baseScore,
                  !.lines = lines,
                  !.level = Min((lines \div 10) + 1, MaxLevel)]

\* GameResult; lines and isTSpin are absent (here 0 and FALSE) unless
\* the type is linesCleared
Result(type, lines, isTSpin) == [type |-> type, lines |-> lines, isTSpin |-> isTSpin]

\* the rotate step of update: currentPiece after it
RotateStep(e, piece, inputs) ==
  IF inputs.rotate
  THEN LET kicked == tryKick(e, piece, (piece.rotation + 1) % 4)
       IN  IF kicked # NoPiece THEN [e EXCEPT !.currentPiece = kicked] ELSE e
  ELSE e

RotateMoved(e, piece, inputs) ==
  inputs.rotate /\ tryKick(e, piece, (piece.rotation + 1) % 4) # NoPiece

\* the hold step of update
HoldStep(e, piece, inputs) ==
  IF inputs.hold /\ e.canHold
  THEN IF e.holdPiece = NoHold
       THEN spawnPiece([e EXCEPT !.holdPiece = piece.type,
                                 !.currentPiece = NoPiece,
                                 !.canHold = FALSE])
       ELSE [e EXCEPT !.holdPiece = piece.type,
                      !.currentPiece = [type |-> e.holdPiece, x |-> SpawnX,
                                        y |-> SpawnY, rotation |-> 0],
                      !.canHold = FALSE]
  ELSE e

\* the DAS/ARR step of update
ShiftStep(e, piece, deltaTime, inputs) ==
  IF inputs.left \/ inputs.right
  THEN LET direction == IF inputs.left THEN -1 ELSE 1
           newPiece == [piece EXCEPT !.x = piece.x + direction]
       IN  IF e.dasDirection # direction
           THEN LET r == [e EXCEPT !.dasDirection = direction,
                                   !.dasTimer = 0, !.arrTimer = 0]
                IN  IF canPlace(e, newPiece)
                    THEN [r EXCEPT !.currentPiece = newPiece] ELSE r
           ELSE LET d == [e EXCEPT !.dasTimer = @ + deltaTime]
                IN  IF d.dasTimer >= PresetOf(e).das
                    THEN LET a == [d EXCEPT !.arrTimer = @ + deltaTime]
                         IN  IF a.arrTimer >= PresetOf(e).arr
                             THEN [a EXCEPT !.arrTimer = 0,
                                            !.currentPiece =
                                               IF canPlace(e, newPiece)
                                               THEN newPiece ELSE @]
                             ELSE a
                    ELSE d
  ELSE [e EXCEPT !.dasDirection = 0, !.dasTimer = 0, !.arrTimer = 0]

ShiftMoved(e, piece, deltaTime, inputs) ==
  /\ inputs.left \/ inputs.right
  /\ LET direction == IF inputs.left THEN -1 ELSE 1
     IN  /\ canPlace(e, [piece EXCEPT !.x = piece.x + direction])
         /\ \/ e.dasDirection # direction
            \/ /\ e.dasTimer + deltaTime >= PresetOf(e).das
               /\ e.arrTimer + deltaTime >= PresetOf(e).arr

\* the soft drop step of update
SoftDropStep(e, piece, inputs) ==
  LET newPiece == [piece EXCEPT !.y = piece.y - 1]
  IN  IF inputs.softDrop /\ canPlace(e, newPiece)
      THEN [e EXCEPT !.currentPiece = newPiece, !.score = @ + 1]
      ELSE e

\* the while loop of the hard drop: the distance the piece can fall
RECURSIVE DropDistance(_, _, _)
DropDistance(e, piece, dropDistance) ==
  IF canPlace(e, [piece EXCEPT !.y = piece.y - dropDistance - 1])
  THEN DropDistance(e, piece, dropDistance + 1)
  ELSE dropDistance

\* the hard drop step of update
HardDropStep(e, piece, inputs) ==
  IF inputs.hardDrop
  THEN LET dropDistance == DropDistance(e, piece, 0)
       IN  [e EXCEPT !.currentPiece = [piece EXCEPT !.y = piece.y - dropDistance],
                     !.score = @ + dropDistance * 2,
                     !.lockTimer = PresetOf(e).lockDelay]
  ELSE e

\* the gravity step of update
GravityStep(e, piece, deltaTime) ==
  LET d == [e EXCEPT !.dropTimer = @ + deltaTime]
      table == PresetOf(e).gravity
      gravity == table[Min(e.level - 1, Len(table) - 1) + 1]
      newPiece == [piece EXCEPT !.y = piece.y - 1]
  IN  IF d.dropTimer >= gravity
      THEN [d EXCEPT !.dropTimer = 0,
                     !.currentPiece = IF canPlace(e, newPiece) THEN newPiece ELSE @]
      ELSE d

\* whether the lock delay step locks the piece
Locks(e, piece, deltaTime, inputs) ==
  /\ ~canPlace(e, [piece EXCEPT !.y = piece.y - 1])
  /\ (e.lockTimer + deltaTime >= PresetOf(e).lockDelay \/ inputs.hardDrop)

\* the lock delay step of update
LockStep(e, piece, deltaTime, inputs, moved) ==
  IF ~canPlace(e, [piece EXCEPT !.y = piece.y - 1])
  THEN LET t == [e EXCEPT !.lockTimer = @ + deltaTime]
       IN  IF t.lockTimer >= PresetOf(e).lockDelay \/ inputs.hardDrop
           THEN LET isTSpin == checkTSpin(t, piece)
                    placed == placePiece(t, piece)
                    linesCleared == Cardinality(FullLines(placed))
                    c == [t EXCEPT !.playfield = clearLines(placed)]
                IN  [updateScore(c, linesCleared, isTSpin)
                       EXCEPT !.currentPiece = NoPiece]
           ELSE t
  ELSE IF moved THEN [e EXCEPT !.lockTimer = 0] ELSE e

\* the result the lock delay step leaves in `result`
LockResult(e, piece, deltaTime, inputs) ==
  IF Locks(e, piece, deltaTime, inputs)
  THEN LET placed == placePiece(e, piece)
           linesCleared == Cardinality(FullLines(placed))
       IN  IF linesCleared > 0
           THEN Result("linesCleared", linesCleared, checkTSpin(e, piece))
           ELSE Result("continue", 0, FALSE)
  ELSE Result("continue", 0, FALSE)

\* whether the input steps of update set `moved`
Moved(e, piece, deltaTime, inputs) ==
  \/ RotateMoved(e, piece, inputs)
  \/ (inputs.hold /\ e.canHold)
  \/ ShiftMoved(e, piece, deltaTime, inputs)
  \/ (inputs.softDrop /\ canPlace(e, [piece EXCEPT !.y = piece.y - 1]))
  \/ inputs.hardDrop

\* the steps of update from rotate to gravity, each on the engine the step
\* before left and all on the piece read when update began
InputSteps(e, piece, deltaTime, inputs) ==
  GravityStep(
    HardDropStep(
      SoftDropStep(
        ShiftStep(HoldStep(RotateStep(e, piece, inputs), piece, inputs),
                  piece, deltaTime, inputs),
        piece, inputs),
      piece, inputs),
    piece, deltaTime)

\* what an update call yields: 
\*   eng     the engine afterwards
\*   result  the GameResult returned
\* and, for the properties only,
\*   spawns  how many times spawnPiece ran
\*   held    whether the hold branch ran
\*   locked  whether placePiece ran
\*   placed  the playfield as placePiece left it, before clearLines
Outcome(e, result, spawns, held, locked, placed) ==
  [eng |-> e, result |-> result, spawns |-> spawns, held |-> held,
   locked |-> locked, placed |-> placed]

\* the lock delay step of update on engine g, and the return
LockOutcome(g, piece, deltaTime, inputs, moved, spawns, held) ==
  Outcome(LockStep(g, piece, deltaTime, inputs, moved),
          LockResult(g, piece, deltaTime, inputs),
          spawns, held,
          Locks(g, piece, deltaTime, inputs),
          IF Locks(g, piece, deltaTime, inputs) THEN placePiece(g, piece)
          ELSE g.playfield)

\* update once a current piece is there: const piece = this.state.currentPiece
UpdateActive(e, absent, deltaTime, inputs) ==
  LockOutcome(InputSteps(e, e.currentPiece, deltaTime, inputs),
              e.currentPiece, deltaTime, inputs,
              Moved(e, e.currentPiece, deltaTime, inputs),
              (IF absent THEN 1 ELSE 0)
                + (IF inputs.hold /\ e.canHold /\ e.holdPiece = NoHold THEN 1 ELSE 0),
              inputs.hold /\ e.canHold)

\* update after its spawn of a missing piece (absent: it was missing)
UpdateSpawned(e, absent, deltaTime, inputs) ==
  IF absent /\ e.gameOver
  THEN Outcome(e, Result("gameOver", 0, FALSE), 1, FALSE, FALSE, e.playfield)
  ELSE UpdateActive(e, absent, deltaTime, inputs)

\* update after this.state.time += deltaTime
UpdateTimed(e, deltaTime, inputs) ==
  UpdateSpawned(IF e.currentPiece = NoPiece THEN spawnPiece(e) ELSE e,
                e.currentPiece = NoPiece, deltaTime, inputs)

\* update(deltaTime, inputs) past the game-over short-circuit
UpdateBody(e, deltaTime, inputs) ==
  UpdateTimed([e EXCEPT !.time = @ + deltaTime], deltaTime, inputs)

\* update without its first line, the early return on gameOver
UpdateWithoutEarlyReturn(e, deltaTime, inputs) == UpdateBody(e, deltaTime, inputs)

\* an update that returns at once and leaves the engine as it is
UpdatePaused(e, deltaTime, inputs) ==
  Outcome(e, Result("continue", 0, FALSE), 0, FALSE, FALSE, e.playfield)

\* update(deltaTime, inputs)
EngineUpdate(e, deltaTime, inputs) ==
  IF e.gameOver
  THEN Outcome(e, Result("gameOver", 0, FALSE), 0, FALSE, FALSE, e.playfield)
  ELSE UpdateBody(e, deltaTime, inputs)

\* a clone() that copies the state and leaves the bag of the new engine empty
CloneWithoutBag(e) == [e EXCEPT !.bag = << >>]

\* clone(): a new engine whose state is a copy of every field of this one
\* ({...this.state} with playfield, queues, piece and rng copied), and its bag
clone(e) ==
  [ playfield |-> e.playfield, currentPiece |-> e.currentPiece,
    nextQueue |-> e.nextQueue, holdPiece |-> e.holdPiece, canHold |-> e.canHold,
    score |-> e.score, lines |-> e.lines, level |-> e.level, combo |-> e.combo,
    b2b |-> e.b2b, garbageQueue |-> e.garbageQueue, lockTimer |-> e.lockTimer,
    dropTimer |-> e.dropTimer, dasTimer |-> e.dasTimer, arrTimer |-> e.arrTimer,
    dasDirection |-> e.dasDirection, gameOver |-> e.gameOver, time |-> e.time,
    seed |-> e.seed, rng |-> e.rng, preset |-> e.preset, bag |-> e.bag ]

\* serializeState(): the snapshot has the fields of the state but seed and
\* preset, the RNG word as rngState, and the bag
serializeState(e) ==
  [ playfield |-> e.playfield, currentPiece |-> e.currentPiece,
    nextQueue |-> e.nextQueue, holdPiece |-> e.holdPiece, canHold |-> e.canHold,
    score |-> e.score, lines |-> e.lines, level |-> e.level, combo |-> e.combo,
    b2b |-> e.b2b, garbageQueue |-> e.garbageQueue, lockTimer |-> e.lockTimer,
    dropTimer |-> e.dropTimer, dasTimer |-> e.dasTimer, arrTimer |-> e.arrTimer,
    dasDirection |-> e.dasDirection, gameOver |-> e.gameOver, time |-> e.time,
    rngState |-> e.rng, bag |-> e.bag ]

\* a loadState that restores everything but the bag
LoadButBag(e, snapshot) ==
  [ e EXCEPT !.playfield = snapshot.playfield,
             !.currentPiece = snapshot.currentPiece,
             !.nextQueue = snapshot.nextQueue, !.holdPiece = snapshot.holdPiece,
             !.canHold = snapshot.canHold, !.score = snapshot.score,
             !.lines = snapshot.lines, !.level = snapshot.level,
             !.combo = snapshot.combo, !.b2b = snapshot.b2b,
             !.garbageQueue = snapshot.garbageQueue,
             !.lockTimer = snapshot.lockTimer, !.dropTimer = snapshot.dropTimer,
             !.dasTimer = snapshot.dasTimer, !.arrTimer = snapshot.arrTimer,
             !.dasDirection = snapshot.dasDirection,
             !.gameOver = snapshot.gameOver, !.time = snapshot.time,
             !.rng = snapshot.rngState ]

\* loadState(snapshot) on engine e
loadState(e, snapshot) ==
  [ e EXCEPT !.playfield = snapshot.playfield,
             !.currentPiece = snapshot.currentPiece,
             !.nextQueue = snapshot.nextQueue, !.holdPiece = snapshot.holdPiece,
             !.canHold = snapshot.canHold, !.score = snapshot.score,
             !.lines = snapshot.lines, !.level = snapshot.level,
             !.combo = snapshot.combo, !.b2b = snapshot.b2b,
             !.garbageQueue = snapshot.garbageQueue,
             !.lockTimer = snapshot.lockTimer, !.dropTimer = snapshot.dropTimer,
             !.dasTimer = snapshot.dasTimer, !.arrTimer = snapshot.arrTimer,
             !.dasDirection = snapshot.dasDirection,
             !.gameOver = snapshot.gameOver, !.time = snapshot.time,
             !.rng = snapshot.rngState, !.bag = snapshot.bag ]

(***************************************************************************)
(* An engine driven by update calls, with what the properties need of its  *)
(* past: a run is [eng |-> the engine, hist |-> the record                 *)
(*   result  the GameResult of the last update call                        *)
(*   locked  whether that call locked a piece, and                         *)
(*   placed  the playfield as placePiece left it (else the playfield)      *)
(*   held    whether a hold has run since the last lock                    *)
(*   over    whether that call found gameOver set on entry                 *)
(*   inputs  the inputs of that call                                       *)
(*   streak  how many line clears of 4 lines or with a T-spin the game has *)
(*           made since the last line clear of another kind                *)
(*   draws   every piece type getNextPiece has returned so far ]           *)
(***************************************************************************)

\* the k-th candidate of a rotation of piece: the k-th offset of the kick
\* table of its class and rotation applied, the rotation advanced
Candidate(piece, k) ==
  [piece EXCEPT
     !.x = @ + SRS_KICKS[IF piece.type = 0 THEN 1 ELSE 2][piece.rotation + 1][k][1],
     !.y = @ - SRS_KICKS[IF piece.type = 0 THEN 1 ELSE 2][piece.rotation + 1][k][2],
     !.rotation = (@ + 1) % 4]

\* the first candidate that can be placed, by its place in the table, or 0
FirstKick(e, piece) ==
  IF \A k \in 1..5 : ~canPlace(e, Candidate(piece, k)) THEN 0
  ELSE CHOOSE k \in 1..5 :
         /\ canPlace(e, Candidate(piece, k))
         /\ \A j \in 1..(k - 1) : ~canPlace(e, Candidate(piece, j))

FirstRun(e) ==
  [eng |-> e,
   hist |-> [result |-> Result("continue", 0, FALSE), locked |-> FALSE,
             placed |-> e.playfield, held |-> FALSE, over |-> FALSE,
             inputs |-> NeutralInput, streak |-> 0, kick |-> 0,
             draws |-> << e.currentPiece.type >> \o e.nextQueue]]

StartRun(presetName, seed) == FirstRun(NewEngine(presetName, seed))

\* the run R after an update call with outcome u; each spawnPiece of the
\* call pushed one draw at the end of the queue
Recorded(R, u, inputs) ==
  [eng |-> u.eng,
   hist |-> [result |-> u.result, locked |-> u.locked, placed |-> u.placed,
             held |-> IF u.locked THEN FALSE ELSE (R.hist.held \/ u.held),
             over |-> R.eng.gameOver, inputs |-> inputs,
             kick |-> IF inputs.rotate /\ ~R.eng.gameOver
                           /\ R.eng.currentPiece # NoPiece
                      THEN FirstKick(R.eng, R.eng.currentPiece) ELSE 0,
             streak |-> IF u.result.type # "linesCleared" THEN R.hist.streak
                        ELSE IF u.result.isTSpin \/ u.result.lines = 4
                             THEN R.hist.streak + 1 ELSE 0,
             draws |-> R.hist.draws \o SubSeq(u.eng.nextQueue,
                                              Len(u.eng.nextQueue) - u.spawns + 1,
                                              Len(u.eng.nextQueue))]]

\* one update call on the run's engine
StepRun(R, deltaTime, inputs) ==
  Recorded(R, EngineUpdate(R.eng, deltaTime, inputs), inputs)

\* the button held during a scripted frame
KeyInput(k) ==
  IF k = "L" THEN [NeutralInput EXCEPT !.left = TRUE]
  ELSE IF k = "R" THEN [NeutralInput EXCEPT !.right = TRUE]
  ELSE IF k = "S" THEN [NeutralInput EXCEPT !.softDrop = TRUE]
  ELSE IF k = "D" THEN [NeutralInput EXCEPT !.hardDrop = TRUE]
  ELSE IF k = "T" THEN [NeutralInput EXCEPT !.rotate = TRUE]
  ELSE IF k = "H" THEN [NeutralInput EXCEPT !.hold = TRUE]
  ELSE NeutralInput

\* the frame time of the scripted frames: 100 ms, as in the engine's tests
ScriptDelta == 100 * TimeScale

\* Scripted games (input per frame).  StackScript stacks and clears lines:
\* its last frame locks a piece that completes rows 0 and 2 at once.
StackScript ==
  <<
     "R", "N", "R", "N", "D", "D", "N", "R", "N", "R", "N", "R", "N", "R", "N", "R", "N", "D", "D", "N", "T", "D", "D", "N",
     "T", "D", "D", "N", "T", "T", "R", "N", "R", "N", "D", "D", "N", "T", "T", "T", "L", "N", "L", "N", "D", "D", "N", "T",
     "R", "N", "R", "N", "R", "N", "R", "N", "D", "D", "N", "T", "T", "L", "N", "L", "N", "D", "D", "N", "T", "T", "L", "N",
     "L", "N", "L", "N", "L", "N", "D", "D" >>

\* TidyScript clears one line in frame 52, two in frame 89, one in frame 109.
TidyScript ==
  <<
     "L", "N", "L", "N", "L", "N", "L", "N", "L", "N", "D", "D", "N", "L", "N", "D", "D", "N", "T", "T", "T", "R", "N", "R",
     "N", "D", "D", "N", "L", "N", "L", "N", "L", "N", "L", "N", "L", "N", "D", "D", "N", "R", "N", "R", "N", "R", "N", "R",
     "N", "D", "D", "D", "N", "L", "N", "L", "N", "L", "N", "L", "N", "L", "N", "D", "D", "N", "L", "N", "D", "D", "N", "T",
     "R", "N", "D", "D", "N", "R", "N", "R", "N", "R", "N", "R", "N", "R", "N", "D", "D", "N", "R", "N", "D", "D", "N", "T",
     "T", "R", "N", "R", "N", "R", "N", "R", "N", "R", "N", "D", "D", "N", "L", "N", "L", "N", "L", "N", "L", "N", "L", "N",
     "D", "D" >>

\* DropScript drops every piece where it spawns; its last frame cannot spawn.
DropScript ==
  <<
     "D", "D", "N", "D", "D", "N", "D", "D", "N", "D", "D", "D", "N", "D", "D", "N", "D", "D", "N", "D", "D", "D", "N", "D",
     "D", "N", "D", "D", "N", "D", "D", "D", "N", "D", "D", "N", "D", "D", "N" >>

\* a hold of the first piece, twelve pieces dropped where they spawn, and a
\* hold that swaps the first piece back in
HoldScript ==
  <<
     "H", "D", "D", "N", "D", "D", "N", "D", "D", "N", "D", "D", "N", "D", "D", "N", "D", "D", "N", "D", "D", "D", "N", "D",
     "D", "N", "D", "D", "N", "D", "D", "D", "N", "D", "D", "N", "D", "D", "N", "H" >>

(***************************************************************************)
(* RollbackNetcode.  A coordinator is a record                             *)
(*   players       the Map of PlayerState, as a function on the ids        *)
(*   order         the Map's insertion order, which every loop follows     *)
(*   frameHistory  the Map of GameFrame, as a function on the frames kept  *)
(*   currentFrame, confirmedFrame                                          *)
(* and, for the properties only, what the call in progress has done so far:*)
(*   log           the frames restored ("load") and simulated ("sim")      *)
(*   pushed        the garbage markers pushed                              *)
(* A player's sparse inputs array is a function on the recorded frames.    *)
(* lastUpdateTime and a frame's checksum are written and never read; they  *)
(* are left out, as are PlayerState.confirmed and ping.                    *)
(***************************************************************************)

maxRollbackFrames == 8
frameRate == 60

\* const dt = 1000 / this.frameRate
FrameTime == (1000 * TimeScale) \div frameRate

NewNetcode ==
  [ players |-> << >>, order |-> << >>, frameHistory |-> << >>,
    currentFrame |-> 0, confirmedFrame |-> 0, log |-> << >>, pushed |-> 0 ]

addPlayer(N, playerId, engine) ==
  [ N EXCEPT
      !.players = [p \in DOMAIN N.players \cup {playerId} |->
                     IF p = playerId
                     THEN [engine |-> clone(engine), inputs |-> << >>]
                     ELSE N.players[p]],
      !.order = IF playerId \in DOMAIN N.players THEN @ ELSE Append(@, playerId) ]

\* array[frame] = inputs
SetInput(inputs, frame, value) ==
  [f \in DOMAIN inputs \cup {frame} |-> IF f = frame THEN value ELSE inputs[f]]

\* findLastConfirmedInput searching every frame down to 0
FindFromStart(N, playerId) ==
  IF playerId \notin DOMAIN N.players THEN N.currentFrame
  ELSE LET found == {i \in 0..N.currentFrame : i \in DOMAIN N.players[playerId].inputs}
       IN  IF found # {} THEN CHOOSE i \in found : \A j \in found : j <= i
           ELSE 0

findLastConfirmedInput(N, playerId) ==
  IF playerId \notin DOMAIN N.players THEN N.currentFrame
  ELSE LET start == Max(0, N.currentFrame - maxRollbackFrames)
           found == {i \in start..N.currentFrame : i \in DOMAIN N.players[playerId].inputs}
       IN  IF found # {} THEN CHOOSE i \in found : \A j \in found : j <= i
           ELSE start

\* the loop of runPrediction that lowers `earliest`
Earliest(N) ==
  LET all == {findLastConfirmedInput(N, p) : p \in DOMAIN N.players} \cup {N.currentFrame}
  IN  CHOOSE f \in all : \A g \in all : f <= g

rollbackToFrame(N, frame) ==
  IF frame \notin DOMAIN N.frameHistory THEN N
  ELSE LET saved == N.frameHistory[frame]
       IN  [ N EXCEPT
               !.players = [p \in DOMAIN N.players |->
                  IF p \in DOMAIN saved.snapshots
                  THEN [N.players[p] EXCEPT !.engine = loadState(@, saved.snapshots[p])]
                  ELSE [N.players[p] EXCEPT !.engine = clone(@)]],
               !.currentFrame = frame,
               !.log = Append(@, << "load", frame >>) ]

calculateGarbageAmount(lines, isTSpin) ==
  LET table == << 0, 0, 1, 2, 4 >>
      g == At0(table, Min(Max(lines, 0), 4))
  IN  IF isTSpin THEN g + lines ELSE g

\* the markers sendGarbage pushes: max(1, min(10, amount)) times the value
\* Math.floor(Math.random() * 10), here rnd
Markers(amount, rnd) == [i \in 1..Max(1, Min(10, amount)) |-> rnd]

\* handleLineClears without its `continue`: garbage to every player
GarbageToAll(N, playerId, lines, isTSpin, rnd) ==
  LET garbage == calculateGarbageAmount(lines, isTSpin)
  IN  IF garbage <= 0 THEN N
      ELSE [ N EXCEPT
               !.players = [p \in DOMAIN N.players |->
                  [N.players[p] EXCEPT
                     !.engine.garbageQueue = @ \o Markers(garbage, rnd)]],
               !.pushed = @ + Cardinality(DOMAIN N.players) * Len(Markers(garbage, rnd)) ]

\* handleLineClears: garbage to every player but playerId
handleLineClears(N, playerId, lines, isTSpin, rnd) ==
  LET garbage == calculateGarbageAmount(lines, isTSpin)
      others == DOMAIN N.players \ {playerId}
  IN  IF garbage <= 0 THEN N
      ELSE [ N EXCEPT
               !.players = [p \in DOMAIN N.players |->
                  IF p = playerId THEN N.players[p]
                  ELSE [N.players[p] EXCEPT
                          !.engine.garbageQueue = @ \o Markers(garbage, rnd)]],
               !.pushed = @ + Cardinality(others) * Len(Markers(garbage, rnd)) ]

\* frameInputs of simulateFrame: the recorded input, or the neutral one
FrameInputs(N, frame) ==
  [p \in DOMAIN N.players |->
     IF frame \in DOMAIN N.players[p].inputs
     THEN N.players[p].inputs[frame] ELSE NeutralInput]

\* one turn of the loop of simulateFrame that steps the engines: player pid's
\* engine has returned outcome u
Stepped(N, pid, u, rnd) ==
  IF u.result.type = "linesCleared"
  THEN handleLineClears([N EXCEPT !.players[pid].engine = u.eng], pid,
                        u.result.lines, u.result.isTSpin, rnd)
  ELSE [N EXCEPT !.players[pid].engine = u.eng]

StepPlayer(N, pid, inputs, rnd) ==
  Stepped(N, pid, EngineUpdate(N.players[pid].engine, FrameTime, inputs), rnd)

\* that loop, from the k-th player on
RECURSIVE StepPlayers(_, _, _, _)
StepPlayers(N, frameInputs, k, rnd) ==
  IF k > Len(N.order) THEN N
  ELSE StepPlayers(StepPlayer(N, N.order[k], frameInputs[N.order[k]], rnd),
                   frameInputs, k + 1, rnd)

\* the end of simulateFrame with confirmedFrame set to frame - maxRollbackFrames
\* whatever it was
ConfirmLatest(N, gf) ==
  [ N EXCEPT
      !.frameHistory =
         [k \in {h \in DOMAIN N.frameHistory \cup {gf.frame} :
                   h >= Max(0, gf.frame - maxRollbackFrames * 2)} |->
            IF k = gf.frame THEN gf ELSE N.frameHistory[k]],
      !.confirmedFrame = gf.frame - maxRollbackFrames,
      !.log = Append(@, << "sim", gf.frame >>) ]

\* the end of simulateFrame: the frame record gf is stored, old records are
\* dropped, confirmedFrame is raised
StoreFrame(N, gf) ==
  [ N EXCEPT
      !.frameHistory =
         [k \in {h \in DOMAIN N.frameHistory \cup {gf.frame} :
                   h >= Max(0, gf.frame - maxRollbackFrames * 2)} |->
            IF k = gf.frame THEN gf ELSE N.frameHistory[k]],
      !.confirmedFrame = Max(@, gf.frame - maxRollbackFrames),
      !.log = Append(@, << "sim", gf.frame >>) ]

simulateFrame(N, frame, rnd) ==
  StoreFrame(StepPlayers(N, FrameInputs(N, frame), 1, rnd),
             [frame |-> frame, inputs |-> FrameInputs(N, frame),
              snapshots |-> [p \in DOMAIN N.players |->
                               serializeState(N.players[p].engine)]])

\* for (let f = earliest; f <= this.currentFrame; f++) simulateFrame(f)
RECURSIVE Resimulate(_, _, _)
Resimulate(N, f, rnd) ==
  IF f <= N.currentFrame THEN Resimulate(simulateFrame(N, f, rnd), f + 1, rnd)
  ELSE N

\* runPrediction once `earliest` is known
PredictFrom(N, earliest, rnd) ==
  IF earliest < N.currentFrame
  THEN Resimulate(rollbackToFrame(N, earliest), earliest, rnd)
  ELSE simulateFrame(N, N.currentFrame, rnd)

runPrediction(N, rnd) == PredictFrom(N, Earliest(N), rnd)

\* update(_deltaTime, localInputs) of the coordinator
NetUpdate(N, localPlayerId, localInputs, rnd) ==
  LET start == [N EXCEPT !.log = << >>, !.pushed = 0]
      stored == IF localPlayerId \in DOMAIN N.players
                THEN [start EXCEPT !.players[localPlayerId].inputs =
                                      SetInput(@, N.currentFrame, localInputs)]
                ELSE start
  IN  [runPrediction(stored, rnd) EXCEPT !.currentFrame = @ + 1]

onRemoteInput(N, playerId, frame, inputs, rnd) ==
  LET start == [N EXCEPT !.log = << >>, !.pushed = 0]
  IN  IF playerId \notin DOMAIN N.players THEN start
      ELSE LET stored == [start EXCEPT !.players[playerId].inputs =
                                          SetInput(@, frame, inputs)]
           IN  IF frame < N.currentFrame THEN runPrediction(stored, rnd) ELSE stored

(***************************************************************************)
(* The coordinator as a state machine: a local and a remote player, each   *)
(* registered at some moment (the client registers a player when its join  *)
(* message arrives); update and onRemoteInput calls in any order, each     *)
(* running to completion.  removePlayer is not called.                     *)
(***************************************************************************)

VARIABLES
  net,    \* the RollbackNetcode instance
  calls,  \* how many calls have been made (free frames, for an engine's run)
  last,   \* the last call: its name, its arguments, currentFrame on entry
  eng,    \* a TetrisEngine driven directly by update calls
  hist,   \* the record of that engine's run (see StartRun)
  play,   \* the scripted game of that engine and the frames played of it
  heap    \* objects held by reference, where a property is about sharing

vars == << net, calls, last, eng, hist, play, heap >>

LocalPlayer == "player1"
RemotePlayer == "player2"
PlayerIds == { LocalPlayer, RemotePlayer }

\* seed of the engines handed to addPlayer
NetSeed == 12345

\* bounds of the coordinator's runs: the number of calls, and how far ahead
\* of the local frame a remote input may be
MaxCalls == 8
MaxLead == 1

Input(name) == [NeutralInput EXCEPT ![name] = TRUE]

LocalInputs == { NeutralInput }
RemoteInputs == { NeutralInput, Input("right") }

\* Math.floor(Math.random() * 10)
RandomValues == 0..9

NoCall == [op |-> "none", player |-> "", frame |-> 0, inputs |-> NeutralInput,
           at |-> 0]

IdleEngine == StartRun("guideline", NetSeed).eng
IdleHist == StartRun("guideline", NetSeed).hist
NoPlay == [game |-> 0, pos |-> 0]

\* no object is followed
NoHeap == << >>

Init ==
  /\ net = NewNetcode
  /\ calls = 0
  /\ last = NoCall
  /\ heap = NoHeap
  /\ eng = IdleEngine
  /\ hist = IdleHist
  /\ play = NoPlay

Registered(p) == p \in DOMAIN net.players

\* players register before the first frame
AddPlayer(p) ==
  /\ ~Registered(p)
  /\ last.op = "none"
  /\ net' = addPlayer(net, p, NewEngine("guideline", NetSeed))
  /\ UNCHANGED << calls, last, eng, hist, play, heap >>

\* the random values a call can draw: they matter only if it pushes garbage
Draws(pushed) == IF pushed > 0 THEN RandomValues ELSE {0}

Update(inputs) ==
  /\ \E rnd \in Draws(NetUpdate(net, LocalPlayer, inputs, 0).pushed) :
        net' = NetUpdate(net, LocalPlayer, inputs, rnd)
  /\ calls' = calls + 1
  /\ last' = [op |-> "update", player |-> LocalPlayer,
              frame |-> net.currentFrame, inputs |-> inputs,
              at |-> net.currentFrame]
  /\ UNCHANGED << eng, hist, play, heap >>

\* an input message of the remote player, delivered once per frame
RemoteInput(frame, inputs) ==
  /\ Registered(RemotePlayer) =>
        frame \notin DOMAIN net.players[RemotePlayer].inputs
  /\ \E rnd \in Draws(onRemoteInput(net, RemotePlayer, frame, inputs, 0).pushed) :
        net' = onRemoteInput(net, RemotePlayer, frame, inputs, rnd)
  /\ calls' = calls + 1
  /\ last' = [op |-> "onRemoteInput", player |-> RemotePlayer,
              frame |-> frame, inputs |-> inputs, at |-> net.currentFrame]
  /\ UNCHANGED << eng, hist, play, heap >>

Next ==
  \/ \E p \in PlayerIds : AddPlayer(p)
  \/ \E inputs \in LocalInputs : calls < MaxCalls /\ Update(inputs)
  \/ \E frame \in 0..(net.currentFrame + MaxLead), inputs \in RemoteInputs :
        calls < MaxCalls /\ RemoteInput(frame, inputs)

Spec == Init /\ [][Next]_vars

(***************************************************************************)
(* The remote player stalls: both players are registered, the remote one   *)
(* sends nothing, and the game loop keeps calling update, once per         *)
(* animation frame.  Here `calls` is the parity of the number of update    *)
(* calls, so that UpdateCalled is the step of one more call, and the       *)
(* fairness condition says that the game loop never stops calling.  The    *)
(* frames are capped at MaxStallFrame.                                     *)
(***************************************************************************)

BothPlayers ==
  addPlayer(addPlayer(NewNetcode, LocalPlayer, NewEngine("guideline", NetSeed)),
            RemotePlayer, NewEngine("guideline", NetSeed))

InitBoth ==
  /\ net = BothPlayers
  /\ calls = 0
  /\ last = NoCall
  /\ heap = NoHeap
  /\ eng = IdleEngine
  /\ hist = IdleHist
  /\ play = NoPlay

MaxStallFrame == 3

StallInputs ==
  { [NeutralInput EXCEPT !.left = l, !.right = r, !.rotate = t, !.softDrop = d] :
      l \in BOOLEAN, r \in BOOLEAN, t \in BOOLEAN, d \in BOOLEAN }

StallUpdate(inputs) ==
  /\ net.currentFrame < MaxStallFrame
  /\ \E rnd \in Draws(NetUpdate(net, LocalPlayer, inputs, 0).pushed) :
        net' = NetUpdate(net, LocalPlayer, inputs, rnd)
  /\ calls' = 1 - calls
  /\ last' = [op |-> "update", player |-> LocalPlayer,
              frame |-> net.currentFrame, inputs |-> inputs,
              at |-> net.currentFrame]
  /\ UNCHANGED << eng, hist, play, heap >>

NextStall == \E inputs \in StallInputs : StallUpdate(inputs)

UpdateCalled == calls' = 1 - calls

SpecStall == InitBoth /\ [][NextStall]_vars /\ WF_calls(UpdateCalled)

(***************************************************************************)
(* A long game: both players are registered, the remote player's inputs    *)
(* arrive for the frame about to be simulated, or arrive stale, for a      *)
(* frame older than the rollback window that has no input on record.       *)
(***************************************************************************)

MaxWindowCalls == 21

\* what the remote player sends on time
OnTimeInputs == { NeutralInput }

Unrecorded(frame) == frame \notin DOMAIN net.players[RemotePlayer].inputs

WindowUpdate(inputs) == calls < MaxWindowCalls /\ Update(inputs)

OnTimeInput(inputs) ==
  /\ calls < MaxWindowCalls
  /\ RemoteInput(net.currentFrame, inputs)

StaleInput(frame, inputs) ==
  /\ calls < MaxWindowCalls
  /\ frame < net.currentFrame - maxRollbackFrames
  /\ RemoteInput(frame, inputs)

NextWindow ==
  \/ \E inputs \in LocalInputs : WindowUpdate(inputs)
  \/ \E inputs \in OnTimeInputs : OnTimeInput(inputs)
  \/ \E frame \in 0..net.currentFrame, inputs \in RemoteInputs :
        StaleInput(frame, inputs)

SpecWindow == InitBoth /\ [][NextWindow]_vars

(***************************************************************************)
(* A late join: the local player is registered and plays; the remote       *)
(* player is registered when its join message arrives, at any frame.       *)
(***************************************************************************)

MaxJoinCalls == 5

InitLocal ==
  /\ net = addPlayer(NewNetcode, LocalPlayer, NewEngine("guideline", NetSeed))
  /\ calls = 0
  /\ last = NoCall
  /\ heap = NoHeap
  /\ eng = IdleEngine
  /\ hist = IdleHist
  /\ play = NoPlay

Join ==
  /\ ~Registered(RemotePlayer)
  /\ net' = addPlayer(net, RemotePlayer, NewEngine("guideline", NetSeed))
  /\ UNCHANGED << calls, last, eng, hist, play, heap >>

JoinUpdate(inputs) == calls < MaxJoinCalls /\ Update(inputs)

JoinInput(frame, inputs) ==
  /\ calls < MaxJoinCalls
  /\ Registered(RemotePlayer)
  /\ RemoteInput(frame, inputs)

NextJoin ==
  \/ Join
  \/ \E inputs \in LocalInputs : JoinUpdate(inputs)
  \/ \E frame \in 0..net.currentFrame, inputs \in RemoteInputs :
        JoinInput(frame, inputs)

SpecJoin == InitLocal /\ [][NextJoin]_vars

(***************************************************************************)
(* A join late in a long game: the local player plays alone for any number *)
(* of frames, the remote player is registered at any of them, and from     *)
(* then on its inputs arrive on time, or not at all.                       *)
(***************************************************************************)

NextLate ==
  \/ Join
  \/ \E inputs \in OnTimeInputs : WindowUpdate(inputs)
  \/ \E inputs \in OnTimeInputs : Registered(RemotePlayer) /\ OnTimeInput(inputs)

SpecLate == InitLocal /\ [][NextLate]_vars

(***************************************************************************)
(* One engine on its own: a game starts from a new engine, follows its     *)
(* script for any number of frames and then plays up to MaxFrames frames   *)
(* of any input.                                                           *)
(***************************************************************************)

Games ==
  << [preset |-> "guideline", seed |-> 12345, script |-> StackScript],
     [preset |-> "guideline", seed |-> 12345, script |-> TidyScript],
     [preset |-> "guideline", seed |-> 54321, script |-> DropScript],
     [preset |-> "guideline", seed |-> 54321, script |-> HoldScript] >>

\* the frames played off the script
MaxFrames == 2

FreeInputs == { KeyInput(k) : k \in { "N", "L", "R", "S", "D", "T", "H" } }
FreeDeltas == { ScriptDelta }

InitEngine ==
  /\ net = NewNetcode
  /\ calls = 0
  /\ last = NoCall
  /\ heap = NoHeap
  /\ \E g \in DOMAIN Games :
        /\ play = [game |-> g, pos |-> 0]
        /\ eng = StartRun(Games[g].preset, Games[g].seed).eng
        /\ hist = StartRun(Games[g].preset, Games[g].seed).hist

\* the engine and its record become those of run R
Becomes(R) == eng' = R.eng /\ hist' = R.hist

Frame(deltaTime, inputs) ==
  Becomes(StepRun([eng |-> eng, hist |-> hist], deltaTime, inputs))

ScriptedFrame ==
  /\ calls = 0
  /\ play.pos < Len(Games[play.game].script)
  /\ Frame(ScriptDelta, KeyInput(Games[play.game].script[play.pos + 1]))
  /\ play' = [play EXCEPT !.pos = @ + 1]
  /\ UNCHANGED << net, calls, last, heap >>

FreeFrame(deltaTime, inputs) ==
  /\ calls < MaxFrames
  /\ Frame(deltaTime, inputs)
  /\ calls' = calls + 1
  /\ UNCHANGED << net, last, play, heap >>

NextEngine ==
  \/ ScriptedFrame
  \/ \E deltaTime \in FreeDeltas, inputs \in FreeInputs :
        FreeFrame(deltaTime, inputs)

SpecEngine == InitEngine /\ [][NextEngine]_vars

(***************************************************************************)
(* A game handed over: at any frame of a scripted game, once, the engine   *)
(* is cloned, the clone is serialized, and the snapshot is loaded into a   *)
(* new engine of the same preset and seed, which plays on from there.      *)
(***************************************************************************)

Handover ==
  /\ last.op = "none"
  /\ eng' = loadState(clone(NewEngine(eng.preset, eng.seed)),
                      serializeState(clone(eng)))
  /\ last' = [op |-> "loadState", player |-> "", frame |-> play.pos,
              inputs |-> NeutralInput, at |-> Len(hist.draws)]
  /\ UNCHANGED << net, calls, hist, play, heap >>

NextBag == ScriptedFrame \/ Handover

SpecBag == InitEngine /\ [][NextBag]_vars

(***************************************************************************)
(* A game joined in progress: the caller plays its engine through a        *)
(* scripted game and, at any frame of it, hands the engine to addPlayer    *)
(* as the local player, with a remote player whose engine is new or is in  *)
(* the same state.  Then update is called with or without a hard drop, and *)
(* the remote player's neutral input arrives for the frame to come.        *)
(***************************************************************************)

\* calls made to the coordinator of a game joined in progress
MaxGarbageCalls == 2

Register(engine) ==
  /\ ~Registered(LocalPlayer)
  /\ net' = addPlayer(addPlayer(net, LocalPlayer, eng), RemotePlayer, engine)
  /\ UNCHANGED << calls, last, eng, hist, play, heap >>

NextGarbage ==
  \/ ScriptedFrame /\ ~Registered(LocalPlayer)
  \/ \E engine \in { eng, NewEngine("guideline", NetSeed) } : Register(engine)
  \/ \E k \in { "N", "D" } :
        /\ Registered(LocalPlayer)
        /\ calls < MaxGarbageCalls
        /\ Update(KeyInput(k))
  \/ /\ Registered(RemotePlayer)
     /\ calls < MaxGarbageCalls
     /\ RemoteInput(net.currentFrame, NeutralInput)

SpecGarbage == InitEngine /\ [][NextGarbage]_vars

(***************************************************************************)
(* The frame checksum.  A 32-bit word is the set of the positions of its   *)
(* one bits, so that ^ is the symmetric difference and the shifts move the *)
(* positions; hashString multiplies, and is computed on the two 16-bit     *)
(* halves of the word.  The checksum is built turn by turn of the loop of  *)
(* calculateChecksum, over the players in any order and the 64 inputs.     *)
(***************************************************************************)

\* the one bits of n, the lowest at position `from`
RECURSIVE BitsOf(_, _)
BitsOf(n, from) ==
  IF n = 0 THEN {}
  ELSE (IF n % 2 = 1 THEN {from} ELSE {}) \cup BitsOf(n \div 2, from + 1)

Xor(a, b) == (a \ b) \cup (b \ a)

\* x << n and x >>> n
ShiftLeft(x, n) == { i + n : i \in { j \in x : j + n <= 31 } }
ShiftRight(x, n) == { i - n : i \in { j \in x : j >= n } }

mix32(x) ==
  LET a == Xor(x, ShiftLeft(x, 13))
      b == Xor(a, ShiftRight(a, 17))
  IN  Xor(b, ShiftLeft(b, 5))

\* str.charCodeAt(i) for the player ids in use
CharCodes(str) ==
  IF str = "player1" THEN << 112, 108, 97, 121, 101, 114, 49 >>
  ELSE << 112, 108, 97, 121, 101, 114, 50 >>

\* hash = (hash * 31 + charCode) | 0, from the i-th character on
RECURSIVE HashFrom(_, _, _)
HashFrom(hash, codes, i) ==
  IF i > Len(codes) THEN hash
  ELSE HashFrom(<< (hash[1] * 31 + ((hash[2] * 31 + codes[i]) \div Half)) % Half,
                   (hash[2] * 31 + codes[i]) % Half >>,
                codes, i + 1)

HashWord(hash) == BitsOf(hash[2], 0) \cup BitsOf(hash[1], 16)

hashString(str) == HashWord(HashFrom(<< 0, 0 >>, CharCodes(str), 1))

hashInputs(inputs) ==
  (IF inputs.left THEN {0} ELSE {}) \cup (IF inputs.right THEN {1} ELSE {})
  \cup (IF inputs.softDrop THEN {2} ELSE {}) \cup (IF inputs.hardDrop THEN {3} ELSE {})
  \cup (IF inputs.rotate THEN {4} ELSE {}) \cup (IF inputs.hold THEN {5} ELSE {})

\* one turn of the loop of calculateChecksum
ChecksumTurn(checksum, pid, input) ==
  mix32(Xor(mix32(Xor(checksum, hashString(pid))), hashInputs(input)))

\* calculateChecksum over the entries << pid, input >> in their order
RECURSIVE ChecksumFrom(_, _, _)
ChecksumFrom(checksum, entries, k) ==
  IF k > Len(entries) THEN checksum
  ELSE ChecksumFrom(ChecksumTurn(checksum, entries[k][1], entries[k][2]),
                    entries, k + 1)

calculateChecksum(entries) == ChecksumFrom({}, entries, 1)

AllInputs ==
  { [left |-> l, right |-> r, softDrop |-> s, hardDrop |-> d, rotate |-> t,
     hold |-> h] :
      l \in BOOLEAN, r \in BOOLEAN, s \in BOOLEAN, d \in BOOLEAN,
      t \in BOOLEAN, h \in BOOLEAN }

InitChecksum ==
  /\ net = NewNetcode
  /\ calls = 0
  /\ last = NoCall
  /\ heap = [entries |-> << >>, checksum |-> {}]
  /\ eng = IdleEngine
  /\ hist = IdleHist
  /\ play = NoPlay

Mixed(pid, input) ==
  /\ \A k \in DOMAIN heap.entries : heap.entries[k][1] # pid
  /\ heap' = [entries |-> Append(heap.entries, << pid, input >>),
              checksum |-> ChecksumTurn(heap.checksum, pid, input)]
  /\ UNCHANGED << net, calls, last, eng, hist, play >>

NextChecksum == \E pid \in PlayerIds, input \in AllInputs : Mixed(pid, input)

SpecChecksum == InitChecksum /\ [][NextChecksum]_vars

(***************************************************************************)
(* The scoring of a game, lock after lock: every lock of update calls      *)
(* updateScore(linesCleared, isTSpin), linesCleared the number of full     *)
(* rows (0 to 4) and isTSpin the corner test of a T piece, which spans at  *)
(* most 3 rows.  The game starts from a new engine of either preset.       *)
(***************************************************************************)

\* the locks of a game
MaxLocks == 4

InitScore ==
  /\ net = NewNetcode
  /\ calls = 0
  /\ last = NoCall
  /\ heap = NoHeap
  /\ play = NoPlay
  /\ \E presetName \in DOMAIN PRESETS :
        /\ eng = StartRun(presetName, NetSeed).eng
        /\ hist = StartRun(presetName, NetSeed).hist

ScoreLock(linesCleared, isTSpin) ==
  /\ calls < MaxLocks
  /\ isTSpin => linesCleared <= 3
  /\ Becomes(Recorded([eng |-> eng, hist |-> hist],
                      Outcome(updateScore(eng, linesCleared, isTSpin),
                              IF linesCleared > 0
                              THEN Result("linesCleared", linesCleared, isTSpin)
                              ELSE Result("continue", 0, FALSE),
                              0, FALSE, TRUE, eng.playfield),
                      NeutralInput))
  /\ calls' = calls + 1
  /\ UNCHANGED << net, last, play, heap >>

NextScore ==
  \E linesCleared \in 0..4, isTSpin \in BOOLEAN : ScoreLock(linesCleared, isTSpin)

SpecScore == InitScore /\ [][NextScore]_vars

(***************************************************************************)
(* Locks and frames between them: the locks of SpecScore, and update calls *)
(* with the neutral input in which the piece falls and nothing locks.      *)
(***************************************************************************)

NextCombo ==
  \/ NextScore
  \/ FreeFrame(ScriptDelta, NeutralInput)

SpecCombo == InitScore /\ [][NextCombo]_vars

(***************************************************************************)
(* A long game: locks that clear 4 lines each take the engine up the       *)
(* levels, and from any point of that climb a few locks of any kind and a  *)
(* few update calls with the neutral input follow.                         *)
(***************************************************************************)

MaxLines == 144
MaxLevelLocks == 2

LockOf(linesCleared, isTSpin) ==
  Becomes(Recorded([eng |-> eng, hist |-> hist],
                   Outcome(updateScore(eng, linesCleared, isTSpin),
                           IF linesCleared > 0
                           THEN Result("linesCleared", linesCleared, isTSpin)
                           ELSE Result("continue", 0, FALSE),
                           0, FALSE, TRUE, eng.playfield),
                   NeutralInput))

Climb ==
  /\ calls = 0
  /\ eng.lines < MaxLines
  /\ LockOf(4, FALSE)
  /\ UNCHANGED << net, calls, last, play, heap >>

LevelLock(linesCleared, isTSpin) ==
  /\ calls < MaxLevelLocks
  /\ isTSpin => linesCleared <= 3
  /\ LockOf(linesCleared, isTSpin)
  /\ calls' = calls + 1
  /\ UNCHANGED << net, last, play, heap >>

NextLevel ==
  \/ Climb
  \/ \E linesCleared \in 0..4, isTSpin \in BOOLEAN : LevelLock(linesCleared, isTSpin)
  \/ FreeFrame(ScriptDelta, NeutralInput)

SpecLevel == InitScore /\ [][NextLevel]_vars

(***************************************************************************)
(* A game nobody plays: update is called again and again with the neutral  *)
(* input and one deltaTime, heap.deltaTime, from the first frame on.  The  *)
(* caller never stops calling, which is the fairness condition.            *)
(***************************************************************************)

NeutralSeeds == { NetSeed, 54321 }
NeutralDeltas == { FrameTime, ScriptDelta, 20 * ScriptDelta }

InitNeutral ==
  /\ net = NewNetcode
  /\ calls = 0
  /\ last = NoCall
  /\ play = NoPlay
  /\ \E presetName \in DOMAIN PRESETS, seed \in NeutralSeeds,
        deltaTime \in NeutralDeltas :
        /\ heap = [deltaTime |-> deltaTime]
        /\ eng = StartRun(presetName, seed).eng
        /\ hist = StartRun(presetName, seed).hist

NeutralFrame ==
  /\ Frame(heap.deltaTime, NeutralInput)
  /\ calls' = 1 - calls
  /\ UNCHANGED << net, last, play, heap >>

SpecNeutral == InitNeutral /\ [][NeutralFrame]_vars /\ WF_calls(UpdateCalled)

(***************************************************************************)
(* Engines as objects.  An engine holds its playfield, its two queues, its *)
(* bag and its RNG by reference: two engines, or an engine and a snapshot, *)
(* that held the same array would see each other's writes.  Here           *)
(*   heap.cells     the arrays and RNG objects, by reference number        *)
(*   heap.engines   the engines, by name: an object is                     *)
(*                  [refs |-> the reference of each part,                  *)
(*                   val  |-> its other fields]                            *)
(*   heap.snapshot  the snapshot serializeState returned, if any           *)
(*   heap.result    the result of the last update call                     *)
(* and, for the properties only,                                           *)
(*   heap.source    the engine the snapshot was taken of                   *)
(*   heap.taken     the value of that engine when it was taken             *)
(*   heap.twin      once the snapshot is loaded back, an engine that went  *)
(*                  on from heap.taken and is given the same update calls  *)
(*   heap.strayed   whether the engine it was loaded back into had drawn a *)
(*                  new bag since the snapshot                             *)
(* "engine" is constructed by the caller and has played a few frames;      *)
(* "copy" is what engine.clone() returns, called by the caller or by       *)
(* addPlayer.                                                              *)
(***************************************************************************)

\* the parts of an engine and of a snapshot that are objects of their own
EngineParts == << "playfield", "nextQueue", "garbageQueue", "bag", "rng" >>
SnapshotParts == << "playfield", "nextQueue", "garbageQueue", "bag" >>

\* a clone that copies all but the next queue, which {...this.state} shares
ClonedButQueue == << "playfield", "garbageQueue", "bag", "rng" >>

\* the parts clone() copies: all of them
ClonedParts == EngineParts

\* the parts of an object, as a set
PartsOf(parts) == { parts[i] : i \in DOMAIN parts }

\* references of new cells for `parts`, allocated after `cells`
NewRefs(cells, parts) ==
  [f \in PartsOf(parts) |-> Len(cells) + (CHOOSE i \in DOMAIN parts : parts[i] = f)]

\* the cells once `parts` of value v are allocated
Allocated(cells, v, parts) == cells \o [i \in DOMAIN parts |-> v[parts[i]]]

\* the value of object o: its parts read through its references
Deref(cells, o) ==
  [f \in DOMAIN o.val |-> IF f \in DOMAIN o.refs THEN cells[o.refs[f]] ELSE o.val[f]]

\* the cells once `parts` of object o are overwritten in place with those of v
Written(cells, o, v, parts) ==
  [c \in DOMAIN cells |->
     IF \E f \in PartsOf(parts) : o.refs[f] = c
     THEN v[CHOOSE f \in PartsOf(parts) : o.refs[f] = c]
     ELSE cells[c]]

\* object o with `parts` replaced by new arrays (allocated after cells)
Reassigned(cells, o, v, parts) ==
  [refs |-> [f \in DOMAIN o.refs |->
               IF f \in PartsOf(parts) THEN NewRefs(cells, parts)[f] ELSE o.refs[f]],
   val |-> v]

\* the engine after the keys of a few frames
RECURSIVE Played(_, _)
Played(e, keys) ==
  IF keys = << >> THEN e
  ELSE Played(EngineUpdate(e, ScriptDelta, KeyInput(Head(keys))).eng, Tail(keys))

Started ==
  { Played(NewEngine("guideline", NetSeed), keys) :
      keys \in { << >>, << "H" >>, << "H", "D", "D" >> } }

\* the calls made on the objects
MaxHeapCalls == 5

InitHeap ==
  /\ net = NewNetcode
  /\ calls = 0
  /\ last = NoCall
  /\ eng = IdleEngine
  /\ hist = IdleHist
  /\ play = NoPlay
  /\ \E e \in Started :
        heap = [ cells |-> Allocated(<< >>, e, EngineParts),
                 engines |-> [x \in { "engine" } |->
                                [refs |-> NewRefs(<< >>, EngineParts), val |-> e]],
                 snapshot |-> << >>, result |-> Result("continue", 0, FALSE),
                 source |-> "", taken |-> << >>, twin |-> << >>,
                 strayed |-> FALSE ]

\* the call `op` on object x is the last one made
Called(op, x, inputs) ==
  /\ calls' = calls + 1
  /\ last' = [op |-> op, player |-> x, frame |-> 0, inputs |-> inputs, at |-> 0]
  /\ UNCHANGED << net, eng, hist, play >>

\* update on engine x of heap h: the call read value v and yields outcome u.
\* The arrays are written in place, but the bag when fillBag has refilled
\* it (a draw found it empty): this.bag is then a new array.
HeapUpdated(h, x, v, u, parts, inputs) ==
  [ h EXCEPT
      !.cells = Allocated(Written(h.cells, h.engines[x], u.eng, parts), u.eng,
                          IF Len(parts) < Len(EngineParts) THEN << "bag" >> ELSE << >>),
      !.engines[x] =
         Reassigned(Written(h.cells, h.engines[x], u.eng, parts), @, u.eng,
                    IF Len(parts) < Len(EngineParts) THEN << "bag" >> ELSE << >>),
      !.result = u.result,
      !.twin = IF x = h.source /\ h.twin # << >>
               THEN << [ eng |-> EngineUpdate(h.twin[1].eng, ScriptDelta, inputs).eng,
                         result |-> EngineUpdate(h.twin[1].eng, ScriptDelta, inputs).result ] >>
               ELSE @ ]

HeapUpdateOf(h, x, v, u, inputs) ==
  HeapUpdated(h, x, v, u,
              IF u.spawns > Len(v.bag)
              THEN << "playfield", "nextQueue", "garbageQueue", "rng" >>
              ELSE EngineParts,
              inputs)

HeapUpdate(x, inputs) ==
  /\ calls < MaxHeapCalls
  /\ x \in DOMAIN heap.engines
  /\ Called("update", x, inputs)
  /\ heap' = HeapUpdateOf(heap, x, Deref(heap.cells, heap.engines[x]),
                          EngineUpdate(Deref(heap.cells, heap.engines[x]),
                                       ScriptDelta, inputs),
                          inputs)

\* engine.clone(), which addPlayer calls on the engine it is given
HeapClone ==
  /\ calls < MaxHeapCalls
  /\ "copy" \notin DOMAIN heap.engines
  /\ Called("clone", "engine", NeutralInput)
  /\ heap' =
       [ heap EXCEPT
           !.cells = Allocated(@, clone(Deref(heap.cells, heap.engines["engine"])),
                               ClonedParts),
           !.engines = [x \in { "engine", "copy" } |->
                          IF x = "engine" THEN heap.engines[x]
                          ELSE Reassigned(heap.cells, heap.engines["engine"],
                                          clone(Deref(heap.cells, heap.engines["engine"])),
                                          ClonedParts)] ]

\* s = x.serializeState(): the snapshot has arrays of its own
HeapSerialize(x) ==
  /\ calls < MaxHeapCalls
  /\ x \in DOMAIN heap.engines
  /\ heap.snapshot = << >>
  /\ Called("serializeState", x, NeutralInput)
  /\ heap' =
       [ heap EXCEPT
           !.cells = Allocated(@, serializeState(Deref(heap.cells, heap.engines[x])),
                               SnapshotParts),
           !.snapshot = << [refs |-> NewRefs(heap.cells, SnapshotParts),
                            val |-> serializeState(Deref(heap.cells, heap.engines[x]))] >>,
           !.source = x,
           !.taken = << Deref(heap.cells, heap.engines[x]) >>,
           !.twin = << >>,
           !.strayed = FALSE ]

\* x.loadState(s): new arrays for the playfield, the queues and the bag, the
\* RNG object set in place
HeapLoaded(h, x, v) ==
  [ h EXCEPT
      !.cells = Allocated(Written(h.cells, h.engines[x], v, << "rng" >>), v,
                          SnapshotParts),
      !.engines[x] = Reassigned(h.cells, @, v, SnapshotParts),
      !.twin = IF x = h.source
               THEN << [eng |-> h.taken[1], result |-> h.result] >> ELSE @,
      !.strayed = IF x = h.source
                  THEN Deref(h.cells, h.engines[x]).rng # h.taken[1].rng ELSE @ ]

HeapLoad(x) ==
  /\ calls < MaxHeapCalls
  /\ x \in DOMAIN heap.engines
  /\ heap.snapshot # << >>
  /\ Called("loadState", x, NeutralInput)
  /\ heap' = HeapLoaded(heap, x,
                        loadState(Deref(heap.cells, heap.engines[x]),
                                  Deref(heap.cells, heap.snapshot[1])))

NextHeap ==
  \/ \E x \in { "engine", "copy" }, k \in { "D", "H" } : HeapUpdate(x, KeyInput(k))
  \/ HeapClone
  \/ \E x \in { "engine", "copy" } : HeapSerialize(x)
  \/ \E x \in { "engine", "copy" } : HeapLoad(x)

SpecHeap == InitHeap /\ [][NextHeap]_vars

(***************************************************************************)
(* SeededRNG instances as objects: "first" and "second" are constructed    *)
(* with the same seed, "clone" is first.clone(), taken at any moment, and  *)
(* next() is called on them in any order.  Here                            *)
(*   heap.cells  the state word of each instance, by reference number      *)
(*   heap.rngs   the reference each name holds                             *)
(*   heap.out    the values next() has returned to each name               *)
(*   heap.seed   the seed, and heap.at the number of values "first" had    *)
(*               returned when it was cloned                               *)
(***************************************************************************)

\* the next() calls made
MaxRngCalls == 6

InitRng ==
  /\ net = NewNetcode
  /\ calls = 0
  /\ last = NoCall
  /\ eng = IdleEngine
  /\ hist = IdleHist
  /\ play = NoPlay
  /\ \E seed \in { 12345, 54321 } :
        heap = [ cells |-> << RngOfSeed(seed), RngOfSeed(seed) >>,
                 rngs |-> [x \in { "first", "second" } |->
                             IF x = "first" THEN 1 ELSE 2],
                 out |-> [x \in { "first", "second" } |-> << >>],
                 seed |-> seed, at |-> 0 ]

\* a clone that is the instance itself: return this
SameRng(cells, r) == r

\* clone(): const rng = new SeededRNG(0), a new instance
RngCloneRef(cells, r) == Len(cells) + 1

\* x.next(): the state word is advanced in place and returned
RngCall(x) ==
  /\ calls < MaxRngCalls
  /\ x \in DOMAIN heap.rngs
  /\ Called("next", x, NeutralInput)
  /\ heap' = [ heap EXCEPT !.cells[heap.rngs[x]] = RngNext(@),
                           !.out[x] = Append(@, RngNext(heap.cells[heap.rngs[x]])) ]

\* first.clone(): rng.state = this.state
RngClone ==
  /\ calls < MaxRngCalls
  /\ "clone" \notin DOMAIN heap.rngs
  /\ Called("clone", "first", NeutralInput)
  /\ heap' = [ heap EXCEPT
                 !.cells = Append(@, heap.cells[heap.rngs["first"]]),
                 !.rngs = [x \in { "first", "second", "clone" } |->
                             IF x = "clone"
                             THEN RngCloneRef(heap.cells, heap.rngs["first"])
                             ELSE heap.rngs[x]],
                 !.out = [x \in { "first", "second", "clone" } |->
                            IF x = "clone" THEN << >> ELSE heap.out[x]],
                 !.at = Len(heap.out["first"]) ]

NextRng ==
  \/ \E x \in { "first", "second", "clone" } : RngCall(x)
  \/ RngClone

SpecRng == InitRng /\ [][NextRng]_vars

(***************************************************************************)
(* MultiplayerClient.  A client is a record                                *)
(*   ws                 the socket the client holds: its place in sockets, *)
(*                      0 for null                                         *)
(*   connected, reconnectAttempts, messageQueue   the fields of the class  *)
(*   sockets            every WebSocket a connect call has created, each   *)
(*                      with its readyState and the messages sent on it;   *)
(*                      the handlers connect attaches stay on the socket   *)
(*   timers             the delays of the setTimeout callbacks that have   *)
(*                      not run yet                                        *)
(* and its coordinator is net.  The socket opens and closes on its own     *)
(* account: a close event follows close() or a lost connection.  A message *)
(* is the record that JSON.stringify is handed, without its timestamp.     *)
(***************************************************************************)

maxReconnectAttempts == 5

MaxSockets == 3
MaxClientCalls == 2

NewClient ==
  [ws |-> 0, connected |-> FALSE, reconnectAttempts |-> 0,
   messageQueue |-> << >>, sockets |-> << >>, timers |-> << >>]

IsOpen(C) == C.ws # 0 /\ C.sockets[C.ws].readyState = "OPEN"

processMessageQueue(C) ==
  IF ~IsOpen(C) THEN C
  ELSE [C EXCEPT !.sockets[C.ws].sent = @ \o C.messageQueue,
                 !.messageQueue = << >>]

sendMessage(C, message) ==
  IF C.connected /\ IsOpen(C)
  THEN [C EXCEPT !.sockets[C.ws].sent = Append(@, message)]
  ELSE [C EXCEPT !.messageQueue = Append(@, message)]

\* the message sendInput builds on coordinator N
InputMessage(N, playerId, inputs) ==
  [type |-> "input", playerId |-> playerId,
   data |-> [playerId |-> playerId, frame |-> N.currentFrame, inputs |-> inputs]]

sendInput(C, N, playerId, inputs) ==
  sendMessage(C, InputMessage(N, playerId, inputs))

\* connect(serverUrl): a new socket, held in ws
connect(C) ==
  [C EXCEPT !.sockets = Append(@, [readyState |-> "CONNECTING", sent |-> << >>]),
            !.ws = Len(C.sockets) + 1]

attemptReconnect(C) ==
  IF C.reconnectAttempts >= maxReconnectAttempts THEN C
  ELSE [C EXCEPT !.reconnectAttempts = @ + 1,
                 !.timers = Append(@, 1000 * Pow2(C.reconnectAttempts + 1))]

\* the onopen handler
onopen(C) ==
  processMessageQueue([C EXCEPT !.connected = TRUE, !.reconnectAttempts = 0])

\* the onclose handler
onclose(C) == attemptReconnect([C EXCEPT !.connected = FALSE])

\* disconnect(): close() leaves the socket closing, its handlers in place
disconnect(C) ==
  [(IF C.ws = 0 THEN C
    ELSE [C EXCEPT !.sockets[C.ws].readyState =
                      IF @ = "CLOSED" THEN @ ELSE "CLOSING",
                   !.ws = 0])
   EXCEPT !.connected = FALSE]

(***************************************************************************)
(* A client in use: heap.client is the client, heap.disconnected tells     *)
(* whether disconnect() has been called.  The application connects once,   *)
(* calls update every tick and may disconnect; the server announces        *)
(* players; sockets open and close and timers run when they will.          *)
(***************************************************************************)

InitClient ==
  /\ net = NewNetcode
  /\ calls = 0
  /\ last = NoCall
  /\ eng = IdleEngine
  /\ hist = IdleHist
  /\ play = NoPlay
  /\ heap = [client |-> NewClient, disconnected |-> FALSE]

ClientBecomes(C) ==
  /\ heap' = [heap EXCEPT !.client = C]
  /\ UNCHANGED << net, calls, last, eng, hist, play >>

ClientConnect ==
  /\ heap.client.sockets = << >>
  /\ ~heap.disconnected
  /\ ClientBecomes(connect(heap.client))

SocketOpens(s) ==
  /\ heap.client.sockets[s].readyState = "CONNECTING"
  /\ ClientBecomes(onopen([heap.client EXCEPT !.sockets[s].readyState = "OPEN"]))

SocketCloses(s) ==
  /\ heap.client.sockets[s].readyState # "CLOSED"
  /\ ClientBecomes(onclose([heap.client EXCEPT !.sockets[s].readyState = "CLOSED"]))

\* a setTimeout callback of attemptReconnect runs: connect(serverUrl)
TimerRuns(t) ==
  /\ Len(heap.client.sockets) < MaxSockets
  /\ ClientBecomes(connect([heap.client EXCEPT
                              !.timers = SubSeq(@, 1, t - 1) \o SubSeq(@, t + 1, Len(@))]))

ClientDisconnect ==
  /\ ~heap.disconnected
  /\ heap' = [client |-> disconnect(heap.client), disconnected |-> TRUE]
  /\ UNCHANGED << net, calls, last, eng, hist, play >>

\* handleMessage of a playerJoined message received on an open socket; the
\* engine it creates is seeded by the clock
PlayerJoined(playerId) ==
  /\ \E s \in DOMAIN heap.client.sockets : heap.client.sockets[s].readyState = "OPEN"
  /\ ~Registered(playerId)
  /\ net' = addPlayer(net, playerId, NewEngine("guideline", NetSeed))
  /\ UNCHANGED << calls, last, eng, hist, play, heap >>

\* MultiplayerClient.update: the coordinator's update, then sendInput.
\* last.frame is the frame the coordinator stored the input under,
\* last.player the player it stored it for, last.at the label of the message
ClientUpdate(inputs) ==
  /\ calls < MaxClientCalls
  /\ \E rnd \in Draws(NetUpdate(net, LocalPlayer, inputs, 0).pushed) :
        /\ net' = NetUpdate(net, LocalPlayer, inputs, rnd)
        /\ heap' = [heap EXCEPT !.client = sendInput(@, net', LocalPlayer, inputs)]
        /\ last' = [op |-> "update",
                    player |-> IF Registered(LocalPlayer) THEN LocalPlayer ELSE "",
                    frame |-> net.currentFrame, inputs |-> inputs,
                    at |-> InputMessage(net', LocalPlayer, inputs).data.frame]
  /\ calls' = calls + 1
  /\ UNCHANGED << eng, hist, play >>

NextClient ==
  \/ ClientConnect
  \/ \E s \in DOMAIN heap.client.sockets : SocketOpens(s)
  \/ \E s \in DOMAIN heap.client.sockets : SocketCloses(s)
  \/ \E t \in DOMAIN heap.client.timers : TimerRuns(t)
  \/ ClientDisconnect
  \/ \E playerId \in PlayerIds : PlayerJoined(playerId)
  \/ \E inputs \in LocalInputs : ClientUpdate(inputs)

SpecClient == InitClient /\ [][NextClient]_vars

(***************************************************************************)
(* Replays.  A ReplayRecorder numbers the inputs it is handed from 0; a    *)
(* ReplayPlayer walks a list of frames with a cursor that only moves       *)
(* forward.  The player is built from the recorder's list or from a        *)
(* selection of its entries in their order (a replay that keeps only some  *)
(* frames), and is then asked for frame 0, 1, 2, ... in turn.              *)
(***************************************************************************)

MaxRecords == 4

ReplayInputs == { NeutralInput, KeyInput("L"), KeyInput("D") }

NewRecorder == [frames |-> << >>, frameCount |-> 0]

record(r, inputs) ==
  [frames |-> Append(r.frames, [frame |-> r.frameCount, inputs |-> inputs]),
   frameCount |-> r.frameCount + 1]

getReplay(r) == [seed |-> 0, frames |-> r.frames]

NewReplayPlayer(frames) == [frames |-> frames, currentFrame |-> 0]

\* getInputsForFrame that returns the entry under the cursor and leaves the
\* cursor where it is
GetWithoutAdvance(p, frame) ==
  IF /\ p.currentFrame < Len(p.frames)
     /\ p.frames[p.currentFrame + 1].frame = frame
  THEN [player |-> p, inputs |-> p.frames[p.currentFrame + 1].inputs]
  ELSE [player |-> p, inputs |-> NeutralInput]

getInputsForFrame(p, frame) ==
  IF /\ p.currentFrame < Len(p.frames)
     /\ p.frames[p.currentFrame + 1].frame = frame
  THEN [player |-> [p EXCEPT !.currentFrame = @ + 1],
        inputs |-> p.frames[p.currentFrame + 1].inputs]
  ELSE [player |-> p, inputs |-> NeutralInput]

\* the entries of frames at the positions in S, in their order
RECURSIVE Kept(_, _)
Kept(frames, S) ==
  IF frames = << >> THEN << >>
  ELSE LET rest == Kept(SubSeq(frames, 1, Len(frames) - 1), S)
       IN  IF Len(frames) \in S THEN Append(rest, frames[Len(frames)]) ELSE rest

InitReplay ==
  /\ net = NewNetcode
  /\ calls = 0
  /\ last = NoCall
  /\ eng = IdleEngine
  /\ hist = IdleHist
  /\ play = NoPlay
  /\ heap = [recorder |-> NewRecorder, built |-> FALSE,
             player |-> NewReplayPlayer(<< >>), returned |-> << >>]

ReplayRecord(inputs) ==
  /\ ~heap.built
  /\ heap.recorder.frameCount < MaxRecords
  /\ heap' = [heap EXCEPT !.recorder = record(@, inputs)]
  /\ UNCHANGED << net, calls, last, eng, hist, play >>

ReplayLoad(S) ==
  /\ ~heap.built
  /\ heap' = [heap EXCEPT !.built = TRUE,
                          !.player = NewReplayPlayer(Kept(getReplay(heap.recorder).frames, S))]
  /\ UNCHANGED << net, calls, last, eng, hist, play >>

\* the next query: frame 0 first, then the frame after the last one asked
ReplayQuery ==
  /\ heap.built
  /\ Len(heap.returned) <= MaxRecords
  /\ LET got == getInputsForFrame(heap.player, Len(heap.returned))
     IN  heap' = [heap EXCEPT !.player = got.player,
                              !.returned = Append(@, got.inputs)]
  /\ UNCHANGED << net, calls, last, eng, hist, play >>

NextReplay ==
  \/ \E inputs \in ReplayInputs : ReplayRecord(inputs)
  \/ \E S \in SUBSET (1..heap.recorder.frameCount) : ReplayLoad(S)
  \/ ReplayQuery

SpecReplay == InitReplay /\ [][NextReplay]_vars

(***************************************************************************)
(* Properties of the coordinator.                                          *)
(***************************************************************************)

\* the serialized state of every player's engine
Engines(N) == [p \in DOMAIN N.players |-> serializeState(N.players[p].engine)]

\* the inputs on record, per player
InputsOnRecord(N) == [p \in DOMAIN N.players |-> N.players[p].inputs]

SameGame(A, B) == Engines(A) = Engines(B) /\ A.currentFrame = B.currentFrame

\* a coordinator with the players of N and the inputs N has on record, its
\* engines new, before frame 0
Restarted(N) ==
  [ N EXCEPT
      !.players = [p \in DOMAIN N.players |->
                     [N.players[p] EXCEPT
                        !.engine = clone(NewEngine("guideline", NetSeed))]],
      !.frameHistory = << >>, !.currentFrame = 0, !.confirmedFrame = 0 ]

\* the frames f .. n - 1 simulated once each, in order, without rollback
RECURSIVE Simulated(_, _, _)
Simulated(N, f, n) ==
  IF f < n THEN Simulated(simulateFrame(N, f, 0), f + 1, n)
  ELSE [N EXCEPT !.currentFrame = n]

\* the reference run: the game that had the inputs N has on record from the
\* start and simulated the frames 0 .. n - 1 once each
ReferenceRun(N, n) == Simulated(Restarted(N), 0, n)

\* the coordinator after the remote player's input for `frame` arrives now
Late(frame, inputs) == onRemoteInput(net, RemotePlayer, frame, inputs, 0)

\* C1 (rollback correctness): when the game so far agrees with its reference
\* run, frame N has been simulated (currentFrame = N + 1) and the remote
\* player's non-neutral input for frame N - 3 arrives only now, then after
\* onRemoteInput the engines and the current frame are those of the reference
\* run that had this input from the start.
C1_RollbackCorrect ==
  \A inputs \in RemoteInputs \ { NeutralInput } :
     ( /\ Registered(LocalPlayer) /\ Registered(RemotePlayer)
       /\ net.currentFrame >= 4
       /\ net.currentFrame - 4 \notin DOMAIN net.players[RemotePlayer].inputs
       /\ SameGame(net, ReferenceRun(net, net.currentFrame)) )
     => SameGame(Late(net.currentFrame - 4, inputs),
                 ReferenceRun(Late(net.currentFrame - 4, inputs), net.currentFrame))

\* C3 (update advances the frame): an update call leaves currentFrame exactly
\* one greater than it found it.
C3_UpdateAdvances ==
  last.op = "update" => net.currentFrame = last.at + 1

\* C4 (progress while the remote input is stalled): with update called again
\* and again and no remote input, the current frame and every engine's
\* elapsed time keep growing: they reach frame MaxStallFrame.
C4_Progress ==
  <>( /\ net.currentFrame >= MaxStallFrame
      /\ \A p \in DOMAIN net.players :
            net.players[p].engine.time >= MaxStallFrame * FrameTime )

\* C5 (rollback window boundary): an onRemoteInput call for a known player and
\* a frame older than currentFrame - maxRollbackFrames records the input,
\* restores and re-steps no engine and leaves the current frame as it was.
C5_StaleAccepted ==
  ( /\ last.op = "onRemoteInput"
    /\ Registered(RemotePlayer)
    /\ last.frame < last.at - maxRollbackFrames )
  => /\ last.frame \in DOMAIN net.players[RemotePlayer].inputs
     /\ net.players[RemotePlayer].inputs[last.frame] = last.inputs
     /\ net.log = << >>
     /\ net.currentFrame = last.at

\* the coordinator after two inputs of the remote player arrive, in this order
LateBoth(f1, i1, f2, i2) ==
  onRemoteInput(onRemoteInput(net, RemotePlayer, f1, i1, 0), RemotePlayer, f2, i2, 0)

\* C6 (out-of-order delivery): two inputs of the remote player for two
\* different past frames inside the rollback window leave the same engine
\* states, the same current frame and the same recorded inputs in whichever
\* order they arrive.
C6_OrderIrrelevant ==
  Registered(RemotePlayer) =>
    \A f1, f2 \in Max(0, net.currentFrame - maxRollbackFrames)..(net.currentFrame - 1) :
       \A i1, i2 \in RemoteInputs :
          (f1 < f2 /\ Unrecorded(f1) /\ Unrecorded(f2))
             => /\ SameGame(LateBoth(f1, i1, f2, i2), LateBoth(f2, i2, f1, i1))
                /\ InputsOnRecord(LateBoth(f1, i1, f2, i2))
                     = InputsOnRecord(LateBoth(f2, i2, f1, i1))

\* the coordinator as the prediction procedure of the last call found it: the
\* call's input is on record and the current frame is the one on entry
Entered == [net EXCEPT !.currentFrame = last.at]

\* the last call ran the prediction procedure
Predicted ==
  \/ last.op = "update"
  \/ /\ last.op = "onRemoteInput"
     /\ last.player \in DOMAIN net.players
     /\ last.frame < last.at

\* C19 (resimulation covers the whole gap): when the earliest frame E that the
\* prediction procedure of the last call computed is less than the current
\* frame C it found, the call restores the snapshot of E and then simulates
\* E, E + 1, ..., C, each once and in this order.
C19_WholeGap ==
  (Predicted /\ Earliest(Entered) < last.at)
  => net.log = << << "load", Earliest(Entered) >> >>
                 \o [i \in 1..(last.at - Earliest(Entered) + 1) |->
                       << "sim", Earliest(Entered) + i - 1 >>]

\* C20 (the current frame never goes backwards): no update or onRemoteInput
\* call leaves currentFrame smaller than it found it, and an onRemoteInput
\* call that restores a snapshot leaves it as it found it.
C20_FrameMonotonic ==
  [][/\ net'.currentFrame >= net.currentFrame
     /\ (last'.op = "onRemoteInput" /\ net'.log # << >>
           /\ net'.log[1][1] = "load")
        => net'.currentFrame = net.currentFrame]_vars

\* C21 (each frame applied once): every engine, registered before frame 0
\* and not game over, has been stepped currentFrame times from its initial
\* state: its elapsed time is currentFrame frame times.
C21_OncePerFrame ==
  \A p \in DOMAIN net.players :
     ~net.players[p].engine.gameOver
        => net.players[p].engine.time = net.currentFrame * FrameTime

\* C22 (frame-record invariant): every snapshot stored in the record of a
\* frame F is the state of an engine stepped F times and not yet stepped for
\* frame F: the elapsed time it holds is F frame times.
C22_RecordAtFrameStart ==
  \A f \in DOMAIN net.frameHistory :
     \A p \in DOMAIN net.frameHistory[f].snapshots :
        ~net.frameHistory[f].snapshots[p].gameOver
           => net.frameHistory[f].snapshots[p].time = f * FrameTime

C24_BoundedHistory ==
  Cardinality(DOMAIN net.frameHistory) <= 17

\* the frames simulated in the call that wrote this log, 8 subtracted
Confirming(log) == { log[i][2] - 8 : i \in { j \in DOMAIN log : log[j][1] = "sim" } }

\* C25 (confirmed frame), under SpecLate: confirmedFrame never decreases, and
\* after a call it is the greatest of its value before the call and f - 8 for
\* the frames f simulated in the call.
C25_ConfirmedFrame ==
  [][/\ net'.confirmedFrame >= net.confirmedFrame
     /\ net'.confirmedFrame \in { net.confirmedFrame } \cup Confirming(net'.log)
     /\ \A c \in Confirming(net'.log) : net'.confirmedFrame >= c]_vars

\* an update has rolled back and simulated a frame less than 8 ahead of the
\* confirmed frame
C25_Witness ==
  /\ last.op = "update"
  /\ net.confirmedFrame > 0
  /\ Len(net.log) = 2
  /\ net.log[1][1] = "load"
  /\ net.log[2][1] = "sim"
  /\ net.log[2][2] - 8 < net.confirmedFrame

\* the serialized engine states a coordinator holds
Serialized(N) == [p \in DOMAIN N.players |-> serializeState(N.players[p].engine)]

\* C26 (coordinator determinism), under SpecGarbage: two coordinators in the
\* same state that receive the same update call hold the same serialized
\* engine states after it, garbage queues included, whatever values
\* Math.random returns on either machine.
C26_Deterministic ==
  Registered(LocalPlayer) =>
    \A k \in { "N", "D" } :
       \A rnd \in Draws(NetUpdate(net, LocalPlayer, KeyInput(k), 0).pushed) :
          Serialized(NetUpdate(net, LocalPlayer, KeyInput(k), rnd))
             = Serialized(NetUpdate(net, LocalPlayer, KeyInput(k), 0))

\* C27 (checksum order-independence), under SpecChecksum: the checksum of the
\* entries mixed so far is the checksum of the same entries iterated in the
\* opposite order.
C27_OrderIndependent ==
  heap.checksum
     = calculateChecksum([k \in DOMAIN heap.entries |->
                            heap.entries[Len(heap.entries) + 1 - k]])

\* C37 (confirmed frame never passes the current frame): after any sequence
\* of addPlayer, update and onRemoteInput calls, confirmedFrame <= currentFrame.
C37_ConfirmedBehind == net.confirmedFrame <= net.currentFrame

\* the markers player p's engine sends in a frame simulated from
\* coordinator N with the inputs on record in M: result is what its update
\* call returns
SentBy(result) ==
  IF result.type = "linesCleared"
  THEN Min(At0(<< 0, 0, 1, 2, 4 >>, result.lines)
             + (IF result.isTSpin THEN result.lines ELSE 0), 10)
  ELSE 0

Sent(N, M, p) ==
  SentBy(EngineUpdate(N.players[p].engine, FrameTime,
                      FrameInputs(M, N.currentFrame)[p]).result)

\* C18 (garbage routing), under SpecGarbage: in an update call that simulates
\* the current frame and no other, each player's garbage queue grows by the
\* markers the other players' line clears send, min(g, 10) for a clear whose
\* garbage amount g is positive (table [0,0,1,2,4] by lines, plus the lines
\* of a T-spin), and by nothing for the player's own clear or when g is 0.
C18_GarbageRouting ==
  [][(last'.op = "update" /\ net'.log = << << "sim", net.currentFrame >> >>)
       => \A q \in DOMAIN net.players :
             LET before == net.players[q].engine.garbageQueue
                 after == net'.players[q].engine.garbageQueue
             IN  /\ Len(after) = Len(before)
                       + (IF q = LocalPlayer THEN 0 ELSE Sent(net, net', LocalPlayer))
                       + (IF q = RemotePlayer THEN 0 ELSE Sent(net, net', RemotePlayer))
                 /\ SubSeq(after, 1, Len(before)) = before]_vars

\* the local player has cleared two lines in the frame just simulated: one
\* marker has gone to the remote player and none to the local player
C18_Witness ==
  /\ last.op = "update"
  /\ net.log = << << "sim", last.at >> >>
  /\ net.players[LocalPlayer].engine.lines = 2
  /\ net.players[RemotePlayer].engine.lines = 0
  /\ Len(net.players[RemotePlayer].engine.garbageQueue) = 1
  /\ net.players[LocalPlayer].engine.garbageQueue = << >>

(***************************************************************************)
(* Properties of one engine, under SpecEngine.                             *)
(***************************************************************************)

\* C7 (game-over idempotence): an update call on an engine whose gameOver
\* flag is set returns the result of type 'gameOver' and leaves every field
\* of the engine (score, lines, playfield, piece, queues, timers, elapsed
\* time, RNG word, bag) as it was, whatever the inputs.
C7_GameOverIdempotent ==
  [][eng.gameOver => (eng' = eng /\ hist'.result = Result("gameOver", 0, FALSE))]_vars

\* an update call with a button pressed has run on an engine already over
C7_Witness ==
  /\ hist.over
  /\ eng.gameOver
  /\ hist.inputs.hardDrop
  /\ hist.result.type = "gameOver"

\* C8 (hold single-use): once a hold has run on the current piece, a further
\* hold input before any lock leaves holdPiece unchanged, and the type of
\* the current piece too unless that call locks it.
C8_HoldOnce ==
  [][(hist.held /\ ~eng.gameOver /\ hist'.inputs.hold)
       => /\ eng'.holdPiece = eng.holdPiece
          /\ ~hist'.locked => eng'.currentPiece.type = eng.currentPiece.type]_vars

\* the piece types of the draws i .. i + 6
Window(i) == { hist.draws[j] : j \in i..(i + 6) }

PieceTypes == 0..6

\* C9 as stated (7-bag property): every 7 consecutive draws of the generator
\* hold each of the 7 piece types exactly once.
C9_AnyWindow ==
  \A i \in 1..(Len(hist.draws) - 6) : Window(i) = PieceTypes

\* C9 amended: 7 consecutive draws hold each piece type exactly once when
\* they start at a bag boundary (draw 7k + 1); in any other 7 consecutive
\* draws, the draws of one bag are still pairwise different.
C9_BagWindows ==
  \A i \in 1..(Len(hist.draws) - 6) :
     /\ (i % 7 = 1) => Window(i) = PieceTypes
     /\ \A j, k \in i..(i + 6) :
          (j # k /\ (j - 1) \div 7 = (k - 1) \div 7)
             => hist.draws[j] # hist.draws[k]

\* two whole bags have been drawn, and 7 consecutive draws across the bag
\* boundary repeat a piece type
C9_Witness ==
  /\ Len(hist.draws) >= 14
  /\ \E i \in 2..7 : Window(i) # PieceTypes

\* how many rows below row y of playfield pf are full
FullBelow(pf, y) == Cardinality({ q \in 0..(y - 1) : pf[q] = FullRow })

\* C10 (line-clear correctness): when a piece locks, with n the number of
\* rows equal to 0x3FF once the piece is placed, every other row is found
\* lower by the number of full rows below it, the top n rows are empty, and
\* the call returns 'linesCleared' with lines = n exactly when n > 0.
C10_LineClear ==
  hist.locked =>
    LET n == Cardinality(FullLines(hist.placed))
    IN  /\ \A y \in 0..(Rows - 1) :
             hist.placed[y] # FullRow
                => eng.playfield[y - FullBelow(hist.placed, y)] = hist.placed[y]
        /\ \A y \in (Rows - n)..(Rows - 1) : eng.playfield[y] = 0
        /\ (n > 0) <=> (hist.result.type = "linesCleared")
        /\ hist.result.lines = n

\* a lock completed rows 0 and 2 at once, under a row 1 and a row 3 that stay
C10_Witness ==
  /\ hist.locked
  /\ FullLines(hist.placed) = { 0, 2 }
  /\ hist.placed[1] # 0
  /\ hist.placed[3] # 0
  /\ hist.result = Result("linesCleared", 2, FALSE)

\* C11 (hard drop): an update call with hardDrop set, on an engine with an
\* active piece, locks the piece in that call at the lowest position it can
\* fall to: d being the distance it can fall, the cells placed are those of
\* the piece d rows lower, no piece is active on return, and the score has
\* grown by 2 * d (when the lock clears no line).
C11_HardDrop ==
  [][(hist'.inputs.hardDrop /\ ~eng.gameOver /\ eng.currentPiece # NoPiece)
       => LET d == DropDistance(eng, eng.currentPiece, 0)
              landed == [eng.currentPiece EXCEPT !.y = @ - d]
          IN  /\ hist'.locked
              /\ hist'.placed = placePiece(eng, landed)
              /\ eng'.currentPiece = NoPiece
              /\ FullLines(hist'.placed) = {} => eng'.score = eng.score + 2 * d]_vars

\* C16 (initial state and lookahead): a new engine has an empty playfield,
\* score 0, lines 0, level 1, gameOver false, a current piece and a next
\* queue of 5 piece types; and the next queue holds 5 entries in every state
\* update calls lead to.
C16_Lookahead ==
  /\ Len(eng.nextQueue) = 5
  /\ \A i \in 1..Len(eng.nextQueue) : eng.nextQueue[i] \in 0..6
  /\ (play.pos = 0 /\ calls = 0)
        => /\ \A y \in 0..(Rows - 1) : eng.playfield[y] = 0
           /\ eng.score = 0 /\ eng.lines = 0 /\ eng.level = 1
           /\ ~eng.gameOver
           /\ eng.currentPiece # NoPiece

\* pieces have spawned past the second bag, and the last spawn found no room
C16_Witness ==
  /\ eng.gameOver
  /\ Len(hist.draws) >= 14
  /\ eng.currentPiece = NoPiece

\* C28 (lock-timer reset), under SpecEngine: in an update call that finds the
\* current piece grounded and does not lock it, the lock timer is 0 on return
\* if a move was accepted (rotation, hold, shift or soft drop) and has grown
\* by deltaTime if none was.
C28_LockTimerReset ==
  [][( /\ ~eng.gameOver
       /\ eng.currentPiece # NoPiece
       /\ ~canPlace(eng, [eng.currentPiece EXCEPT !.y = @ - 1])
       /\ ~hist'.locked )
     => IF Moved(eng, eng.currentPiece, ScriptDelta, hist'.inputs)
        THEN eng'.lockTimer = 0
        ELSE eng'.lockTimer = eng.lockTimer + ScriptDelta]_vars

\* the piece an accepted rotation of the current piece yields, or NoPiece
Kicked == tryKick(eng, eng.currentPiece, (eng.currentPiece.rotation + 1) % 4)

\* the gravity step is due in an update call of ScriptDelta
GravityDue ==
  eng.dropTimer + ScriptDelta
     >= PresetOf(eng).gravity[Min(eng.level - 1, Len(PresetOf(eng).gravity) - 1) + 1]

\* C29 (actions of one frame compose), under SpecEngine: an update call with
\* rotate set in which the rotation is accepted and the gravity step is due,
\* the rotated piece being free to fall and the lock delay not yet over,
\* leaves the rotated piece one row lower: the piece carries both changes.
C29_Composed ==
  [][( /\ ~eng.gameOver
       /\ eng.currentPiece # NoPiece
       /\ hist'.inputs = KeyInput("T")
       /\ Kicked # NoPiece
       /\ GravityDue
       /\ canPlace(eng, [Kicked EXCEPT !.y = @ - 1])
       /\ eng.lockTimer + ScriptDelta < PresetOf(eng).lockDelay )
     => eng'.currentPiece = [Kicked EXCEPT !.y = @ - 1]]_vars

\* C30 (wall kicks), under SpecEngine: an update call with rotate alone, in
\* which the gravity step is not due and the piece does not lock, leaves as
\* current piece the first candidate of the kick table, in table order from
\* the unshifted one, that canPlace accepts, its rotation (r + 1) mod 4; or
\* the piece as it was when no candidate can be placed.
C30_WallKick ==
  [][( /\ ~eng.gameOver
       /\ eng.currentPiece # NoPiece
       /\ hist'.inputs = KeyInput("T")
       /\ ~GravityDue
       /\ ~hist'.locked )
     => /\ SRS_KICKS[1][eng.currentPiece.rotation + 1][1] = << 0, 0 >>
        /\ SRS_KICKS[2][eng.currentPiece.rotation + 1][1] = << 0, 0 >>
        /\ eng'.currentPiece =
             IF FirstKick(eng, eng.currentPiece) = 0 THEN eng.currentPiece
             ELSE Candidate(eng.currentPiece, FirstKick(eng, eng.currentPiece))]_vars

\* a rotation has been accepted at a shifted candidate, the unshifted one
\* being blocked
C30_Witness ==
  /\ hist.inputs = KeyInput("T")
  /\ hist.kick > 1
  /\ ~hist.locked
  /\ eng.currentPiece # NoPiece

\* C31 (playfield invariant), under SpecEngine: every row of the playfield is
\* a value in 0..0x3FF, no row is 0x3FF on return from update, and the cells
\* of the current piece are in columns 0..9, so that placing it sets no bit
\* above bit 9.
C31_Playfield ==
  /\ DOMAIN eng.playfield = 0..39
  /\ \A y \in DOMAIN eng.playfield :
        eng.playfield[y] \in 0..1023 /\ eng.playfield[y] # 1023
  /\ eng.currentPiece # NoPiece
       => \A c \in ShapeCells[eng.currentPiece.type][eng.currentPiece.rotation] :
             eng.currentPiece.x + c[1] \in 0..9

\* a lock has completed two rows at once and both are gone, over rows that
\* stay
C31_Witness ==
  /\ hist.locked
  /\ Cardinality(FullLines(hist.placed)) = 2
  /\ eng.lines = 2
  /\ eng.playfield[0] # 0
  /\ FullLines(eng.playfield) = {}

\* the draws of the block that draw n falls in, up to draw n
BlockSoFar(n) == { hist.draws[j] : j \in (n - ((n - 1) % 7))..n }

\* C32 (per-bag permutation), under SpecBag: every aligned block of seven
\* draws holds each of the 7 piece types; the bag holds the types that the
\* block under way has not drawn yet, each once, and is empty after a whole
\* block, so that it is refilled only when empty; a clone and a
\* serializeState / loadState in the middle of a block change none of this.
C32_BagPermutation ==
  LET n == Len(hist.draws)
  IN  /\ \A k \in 0..((n \div 7) - 1) :
            { hist.draws[j] : j \in (7 * k + 1)..(7 * k + 7) } = PieceTypes
      /\ Len(eng.bag) = (7 - (n % 7)) % 7
      /\ Cardinality({ eng.bag[i] : i \in DOMAIN eng.bag }) = Len(eng.bag)
      /\ (n % 7 # 0) =>
            /\ { eng.bag[i] : i \in DOMAIN eng.bag } \cup BlockSoFar(n) = PieceTypes
            /\ { eng.bag[i] : i \in DOMAIN eng.bag } \cap BlockSoFar(n) = {}

\* the engine was handed over in the middle of a block and has drawn a whole
\* block and more since
C32_Witness ==
  /\ last.op = "loadState"
  /\ last.at % 7 \in 2..5
  /\ Len(hist.draws) >= last.at + 8
  /\ Len(eng.bag) \in 1..6

\* C36 (active-piece validity), under SpecEngine: on return from an update
\* call a current piece can be placed where it is: its cells lie in columns
\* 0..9, in rows >= 0, on cells of the playfield that are empty.
C36_ActivePiecePlaceable ==
  (last.op = "none" /\ eng.currentPiece # NoPiece) => canPlace(eng, eng.currentPiece)

\* C40 (termination under neutral input), under SpecNeutral: every piece
\* that is spawned is locked after finitely many frames, and the game reaches
\* gameOver.
C40_Terminates ==
  /\ (eng.currentPiece # NoPiece) ~> hist.locked
  /\ <>eng.gameOver

\* the game is over after a game of 16.67 ms frames in which pieces have
\* locked up to the spawn rows, and update has reported it
C40_Witness ==
  /\ eng.gameOver
  /\ hist.result.type = "gameOver"
  /\ heap.deltaTime = FrameTime
  /\ eng.currentPiece = NoPiece
  /\ eng.playfield[19] # 0
  /\ eng.lines = 0

\* C17 (immediate move on a new direction): an update call with left or
\* right pressed, in a direction (left when both are pressed) other than
\* dasDirection, on an engine whose piece is placeable one column over in
\* that direction, returns with the current piece one column over and with
\* dasTimer and arrTimer zero.
C17_ImmediateMove ==
  [][LET inputs == hist'.inputs
         direction == IF inputs.left THEN -1 ELSE 1
     IN  ( /\ ~eng.gameOver /\ eng.currentPiece # NoPiece
           /\ inputs.left \/ inputs.right
           /\ eng.dasDirection # direction
           /\ canPlace(eng, [eng.currentPiece EXCEPT !.x = @ + direction]) )
         => /\ eng'.currentPiece # NoPiece
            /\ eng'.currentPiece.x = eng.currentPiece.x + direction
            /\ eng'.dasTimer = 0
            /\ eng'.arrTimer = 0]_vars

(***************************************************************************)
(* Properties of the scoring, under SpecScore.                             *)
(***************************************************************************)

\* C12 (back-to-back bonus): a line clear of 4 lines or with a T-spin scores,
\* before the combo bonus, floor(1.5 * table value * level) when the clear
\* before it was of that kind too, and table value * level when it was not
\* (scoreTable[4] * level for 4 lines); b2b grows by one with every such
\* clear, is zero after any other line clear, and a lock that clears nothing
\* leaves it as it was.
C12_BackToBack ==
  [][LET lines == hist'.result.lines
         isTSpin == hist'.result.isTSpin
         value == IF isTSpin THEN At0(<< 0, 800, 1200, 1600 >>, Min(lines, 3))
                  ELSE At0(PresetOf(eng).scoreTable, lines)
         base == eng'.score - eng.score - 50 * eng.combo * eng.level
     IN  IF hist'.result.type = "linesCleared"
         THEN IF isTSpin \/ lines = 4
              THEN /\ base = IF hist.streak > 0
                             THEN (3 * value * eng.level) \div 2
                             ELSE value * eng.level
                   /\ eng'.b2b = eng.b2b + 1
              ELSE eng'.b2b = 0
         ELSE eng'.b2b = eng.b2b]_vars

\* a 4-line clear has followed a 4-line clear at level 1 of the guideline
\* preset, and has scored 1800 + 50 for the combo where the first scored 1200
C12_Witness ==
  /\ calls = 2
  /\ hist.streak = 2
  /\ hist.result = Result("linesCleared", 4, FALSE)
  /\ eng.preset = "guideline"
  /\ eng.b2b = 2
  /\ eng.score = 1200 + 1800 + 50

\* the score of a clear before the combo bonus: the table value times the
\* level, times 1.5 rounded down for a 4-line or T-spin clear that follows
\* another
ClearScore(e, result, streak) ==
  LET value == e.level *
                 (IF result.isTSpin
                  THEN At0(<< 0, 800, 1200, 1600 >>, Min(result.lines, 3))
                  ELSE At0(PresetOf(e).scoreTable, result.lines))
  IN  IF (result.isTSpin \/ result.lines = 4) /\ streak > 0
      THEN (3 * value) \div 2 ELSE value

\* what a line clear does to combo and score: combo grows by one, and a clear
\* made with combo c > 0 scores 50 * c * level more
ComboCounted ==
  /\ eng'.combo = eng.combo + 1
  /\ eng'.score = eng.score + ClearScore(eng, hist'.result, hist.streak)
                    + 50 * eng.combo * eng.level

\* C33 as stated (combo counter): every update call that clears lines counts
\* the combo, and every update call that clears none leaves combo 0.
C33_ComboEveryFrame ==
  [][IF hist'.result.type = "linesCleared" THEN ComboCounted
     ELSE eng'.combo = 0]_vars

\* C33 amended, under SpecCombo: every lock that clears lines counts the
\* combo, every lock that clears none leaves combo 0, and an update call in
\* which no piece locks leaves combo as it was.
C33_ComboPerLock ==
  [][IF hist'.result.type = "linesCleared" THEN ComboCounted
     ELSE IF hist'.locked THEN eng'.combo = 0
     ELSE eng'.combo = eng.combo]_vars

\* a second clear in a row, after frames in which nothing locked, has scored
\* the bonus of combo 1
C33_Witness ==
  /\ hist.result = Result("linesCleared", 2, FALSE)
  /\ eng.preset = "guideline"
  /\ eng.combo = 2
  /\ eng.time = 2 * ScriptDelta
  /\ eng.score = 500 + 500 + 50

\* the level is min(floor(lines / 10) + 1, 15), and the index update takes
\* into the preset's gravity table is an index of that table
LevelOfLines ==
  /\ eng.level = Min((eng.lines \div 10) + 1, 15)
  /\ Min(eng.level - 1, Len(PresetOf(eng).gravity) - 1)
       \in 0..(Len(PresetOf(eng).gravity) - 1)

\* C34 (level), under SpecLevel: in every state the level is
\* min(floor(lines / 10) + 1, 15) and indexes the preset's gravity table
\* within its length, and no step lowers lines or level.
C34_Level ==
  /\ []LevelOfLines
  /\ [][eng'.lines >= eng.lines /\ eng'.level >= eng.level]_vars

\* the engine has cleared lines at level 15, past the 140 lines at which the
\* cap takes over
C34_Witness ==
  /\ eng.lines >= 150
  /\ eng.level = 15
  /\ hist.result.type = "linesCleared"

(***************************************************************************)
(* Properties of the client, under SpecClient.                             *)
(***************************************************************************)

\* the input messages of the client, queued or sent
InputMessages ==
  { heap.client.messageQueue[i] : i \in DOMAIN heap.client.messageQueue }
    \cup UNION { { heap.client.sockets[s].sent[i] : i \in DOMAIN heap.client.sockets[s].sent } :
                 s \in DOMAIN heap.client.sockets }

\* C38 (input message frame label): the message an update call of the client
\* sends is labelled with the frame under which the coordinator stored that
\* call's local input.
C38_FrameLabel ==
  (last.op = "update" /\ last.player = LocalPlayer) =>
     /\ last.frame \in DOMAIN net.players[LocalPlayer].inputs
     /\ InputMessage([net EXCEPT !.currentFrame = last.at], LocalPlayer, last.inputs)
          \in InputMessages
     /\ last.at = last.frame

\* C39 (disconnect is final): once disconnect() has been called no step
\* makes a connection attempt (a new socket) or schedules one (a new timer).
C39_DisconnectFinal ==
  [][heap.disconnected =>
       /\ Len(heap'.client.sockets) = Len(heap.client.sockets)
       /\ Len(heap'.client.timers) <= Len(heap.client.timers)]_vars

(***************************************************************************)
(* Properties of replays, under SpecReplay.                                *)
(***************************************************************************)

\* the entries of the player's list for frame f
EntriesFor(f) ==
  { i \in 1..Len(heap.player.frames) : heap.player.frames[i].frame = f }

\* C35 (replay lookup), under SpecReplay: the answer to the query for frame f
\* is the input of the list's entry for frame f if there is one and the
\* neutral input otherwise, so that every entry whose frame has been asked
\* for has been returned.
C35_ReplayLookup ==
  heap.built =>
    \A f \in 0..(Len(heap.returned) - 1) :
      IF EntriesFor(f) = {} THEN heap.returned[f + 1] = NeutralInput
      ELSE \A i \in EntriesFor(f) : heap.returned[f + 1] = heap.player.frames[i].inputs

\* a list that keeps frames 1 and 3 of a recording of four, asked for frames
\* 0 to 4: the two entries have been returned in their frames
C35_Witness ==
  /\ heap.built
  /\ Len(heap.returned) = 5
  /\ heap.player.frames = << [frame |-> 1, inputs |-> KeyInput("L")],
                             [frame |-> 3, inputs |-> KeyInput("D")] >>
  /\ heap.returned = << NeutralInput, KeyInput("L"), NeutralInput,
                        KeyInput("D"), NeutralInput >>

(***************************************************************************)
(* Properties of engines as objects, under SpecHeap.                       *)
(***************************************************************************)

\* the value of engine x
EngineOf(h, x) == Deref(h.cells, h.engines[x])

\* C13 (snapshot round trip): when a snapshot s of an engine is loaded back
\* into it after any update calls, serializeState() is s again; and from then
\* on every update call leaves the engine in the state, and returns the
\* result, of an engine that went on from the state s was taken in and never
\* rolled back (RNG word and bag included).
C13_RoundTrip ==
  /\ (last.op = "loadState" /\ last.player = heap.source)
        => serializeState(EngineOf(heap, heap.source)) = serializeState(heap.taken[1])
  /\ heap.twin # << >>
        => /\ EngineOf(heap, heap.source) = heap.twin[1].eng
           /\ heap.result = heap.twin[1].result

\* a snapshot was loaded back into an engine that had drawn a new bag
\* since it was taken, and the engine has been updated after that and has
\* drawn the bag again
C13_Witness ==
  /\ heap.twin # << >>
  /\ heap.strayed
  /\ last.op = "update"
  /\ last.player = heap.source
  /\ EngineOf(heap, heap.source).rng # heap.taken[1].rng

\* C14 (clone independence): the engine clone() returns has the serialized
\* state of the original at that moment, and afterwards an update or
\* loadState call on one of the two engines leaves the other as it was.
C14_CloneIndependent ==
  [][/\ last'.op = "clone"
          => /\ serializeState(EngineOf(heap', "copy"))
                  = serializeState(EngineOf(heap, "engine"))
             /\ EngineOf(heap', "engine") = EngineOf(heap, "engine")
     /\ \A x, y \in DOMAIN heap.engines :
          (x # y /\ last'.player = x /\ last'.op \in { "update", "loadState" })
             => EngineOf(heap', y) = EngineOf(heap, y)]_vars

\* both engines have been updated since the clone, and hold different games
C14_Witness ==
  /\ DOMAIN heap.engines = { "engine", "copy" }
  /\ last.op = "update"
  /\ EngineOf(heap, "engine").nextQueue # EngineOf(heap, "copy").nextQueue
  /\ EngineOf(heap, "engine").currentPiece # EngineOf(heap, "copy").currentPiece

(***************************************************************************)
(* Properties of the RNG instances, under SpecRng.                         *)
(***************************************************************************)

\* the state word after n calls of next() from word s
RECURSIVE Iterated(_, _)
Iterated(s, n) == IF n = 0 THEN s ELSE Iterated(RngNext(s), n - 1)

\* C15 (RNG reproducibility): two instances constructed with the same seed
\* return the same sequence of values, the i-th value being the i-th word of
\* the seed's sequence however the calls on the instances are interleaved;
\* and a clone taken after K calls returns the words K + 1, K + 2, ... of
\* that sequence, as the original does, while calls on the one leave the
\* values of the other what they are.
C15_Reproducible ==
  /\ \A i \in 1..Min(Len(heap.out["first"]), Len(heap.out["second"])) :
        heap.out["first"][i] = heap.out["second"][i]
  /\ \A x \in DOMAIN heap.out : \A i \in 1..Len(heap.out[x]) :
        heap.out[x][i] = Iterated(RngOfSeed(heap.seed),
                                  (IF x = "clone" THEN heap.at ELSE 0) + i)

\* a clone taken after one call has returned two values, the original one
\* more after the clone, and the second instance one
C15_Witness ==
  /\ "clone" \in DOMAIN heap.rngs
  /\ heap.at = 1
  /\ Len(heap.out["clone"]) = 2
  /\ Len(heap.out["first"]) = 2
  /\ Len(heap.out["second"]) = 1
  /\ heap.out["clone"][1] = heap.out["first"][2]

====
